---- MODULE Spec2Model ----
(***************************************************************************)
(* A model of the functions-openai repository: the chat loop of            *)
(* chat_cli.py, the configuration manager of config.py, the response       *)
(* extractor and formatter of response_formatter.py / display_utils.py,    *)
(* the keyboard shortcuts of display_utils.py, the Microsoft Graph         *)
(* dispatcher of graph_functions.py and the Graph operations of            *)
(* ms_graph_functions.py.                                                  *)
(*                                                                         *)
(* Python strings are modelled as sequences of tokens (a "text"): a raw    *)
(* input typed by the user or read from the environment is a sequence of   *)
(* one-character tokens, so that strip(), lower() and int() are computed   *)
(* character by character; the string form of an object is the sequence of *)
(* the tokens str() emits (class name, field names, values).  Short        *)
(* symbolic strings (mode names, function names, URLs) are TLA+ strings.   *)
(***************************************************************************)
EXTENDS Integers, Sequences, FiniteSets, TLC

VARIABLES
    pc,            \* position of the running program
    config,        \* config_manager.config (the in-memory Config) or NoConfig
    file,          \* content of response_formatter_config.json or NoFile
    env,           \* the process environment: variable name -> raw value
    args,          \* the parsed command line (argparse namespace)
    display_mode,  \* main(): display_mode
    messages,      \* main(): messages, the conversation history
    user_input,    \* main(): user_input of the current iteration
    response,      \* main(): response of the latest successful API call
    apiCalls,      \* the calls made to client.responses.create, in order
    console,       \* what the latest step of main() printed itself
    rendered,      \* what the latest format_response call put on the console
    call,          \* handle_function_call: function_name and arguments
    network,       \* the HTTP requests sent by graph_functions.py, in order
    result,        \* handle_function_call: the value returned or the exception
    formatter,     \* a ResponseFormatter kept between calls, or NoFormatter
    pressed        \* the keys pressed since that formatter was made, in order

vars == <<pc, config, file, env, args, display_mode, messages, user_input,
          response, apiCalls, console, rendered, call, network, result,
          formatter, pressed>>

chatVars == <<display_mode, messages, user_input, response, apiCalls, console>>
cfgVars == <<config, file, env, args>>
graphVars == <<call, network, result>>
keyVars == <<formatter, pressed>>

-----------------------------------------------------------------------------
(* Python str operations, computed on sequences of one-character tokens.   *)

UpperLetters ==
    <<"A","B","C","D","E","F","G","H","I","J","K","L","M",
      "N","O","P","Q","R","S","T","U","V","W","X","Y","Z">>

LowerLetters ==
    <<"a","b","c","d","e","f","g","h","i","j","k","l","m",
      "n","o","p","q","r","s","t","u","v","w","x","y","z">>

Whitespace == {" ", "\t", "\n", "\r"}

Digits == <<"0","1","2","3","4","5","6","7","8","9">>

LowerChar(c) ==
    IF \E i \in DOMAIN UpperLetters : UpperLetters[i] = c
    THEN LowerLetters[CHOOSE i \in DOMAIN UpperLetters : UpperLetters[i] = c]
    ELSE c

\* str.lower()
Lower(s) == [i \in 1..Len(s) |-> LowerChar(s[i])]

RECURSIVE LStrip(_)
LStrip(s) ==
    IF s # <<>> /\ Head(s) \in Whitespace THEN LStrip(Tail(s)) ELSE s

RECURSIVE RStrip(_)
RStrip(s) ==
    IF s # <<>> /\ s[Len(s)] \in Whitespace
    THEN RStrip(SubSeq(s, 1, Len(s) - 1))
    ELSE s

\* str.strip()
Strip(s) == RStrip(LStrip(s))

\* the Python string spelled by a sequence of one-character tokens
RECURSIVE Join(_)
Join(cs) == IF cs = <<>> THEN "" ELSE Head(cs) \o Join(Tail(cs))

IsDigit(c) == \E i \in DOMAIN Digits : Digits[i] = c

DigitValue(c) == (CHOOSE i \in DOMAIN Digits : Digits[i] = c) - 1

RECURSIVE DigitsValue(_)
DigitsValue(s) ==
    IF s = <<>> THEN 0
    ELSE 10 * DigitsValue(SubSeq(s, 1, Len(s) - 1)) + DigitValue(s[Len(s)])

\* int(value) succeeds on an optionally signed, whitespace-padded digit string
IntParses(s) ==
    LET t == Strip(s)
        u == IF t # <<>> /\ Head(t) \in {"+", "-"} THEN Tail(t) ELSE t
    IN  u # <<>> /\ \A i \in 1..Len(u) : IsDigit(u[i])

IntOf(s) ==
    LET t == Strip(s)
        neg == t # <<>> /\ Head(t) = "-"
        u == IF t # <<>> /\ Head(t) \in {"+", "-"} THEN Tail(t) ELSE t
    IN  IF neg THEN 0 - DigitsValue(u) ELSE DigitsValue(u)

\* 'token in text'
Contains(text, token) == \E i \in 1..Len(text) : text[i] = token

-----------------------------------------------------------------------------
(* Python values.  A short symbolic string is [t |-> "str", s |-> ...]; a  *)
(* long text is [t |-> "text", toks |-> ...]; both are Python str.         *)

NoneV == [t |-> "None"]
StrV(x) == [t |-> "str", s |-> x]
BoolV(x) == [t |-> "bool", b |-> x]
IntV(x) == [t |-> "int", n |-> x]
TextV(x) == [t |-> "text", toks |-> x]
\* a non-empty list of plain values, such as ["clean"]: truthy and unhashable
ListV == [t |-> "list", items |-> <<NoneV>>]

\* bool(v)
Truthy(v) ==
    CASE v.t = "None"  -> FALSE
      [] v.t = "str"   -> v.s # ""
      [] v.t = "bool"  -> v.b
      [] v.t = "int"   -> v.n # 0
      [] v.t = "text"  -> v.toks # <<>>
      [] v.t = "list"  -> v.items # <<>>
      [] v.t = "dict"  -> v.fields # <<>>
      [] OTHER         -> TRUE

\* a or b
Or(a, b) == IF Truthy(a) THEN a ELSE b

Hashable(v) == v.t \notin {"list", "dict"}

-----------------------------------------------------------------------------
(* config.py                                                               *)

DefaultDisplay ==
    [default_mode          |-> StrV("clean"),
     enable_colors         |-> BoolV(TRUE),
     enable_interactive    |-> BoolV(TRUE),
     enable_cost_tracking  |-> BoolV(TRUE),
     show_timestamps       |-> BoolV(FALSE),
     show_model_info       |-> BoolV(FALSE),
     max_content_length    |-> IntV(1000),
     truncate_long_content |-> BoolV(TRUE)]

DefaultColors ==
    [header    |-> StrV("cyan"),
     success   |-> StrV("green"),
     error     |-> StrV("red"),
     warning   |-> StrV("yellow"),
     technical |-> StrV("bright_black"),
     content   |-> StrV("white"),
     reasoning |-> StrV("blue"),
     usage     |-> StrV("magenta")]

DefaultKeyboard ==
    [clean_mode       |-> StrV("c"),
     verbose_mode     |-> StrV("v"),
     debug_mode       |-> StrV("d"),
     reasoning        |-> StrV("r"),
     expand_collapse  |-> StrV("space"),
     exit_interactive |-> StrV("escape")]

\* _load_config: the dictionary the loading starts from
DefaultConfigData ==
    [display |-> DefaultDisplay, colors |-> DefaultColors, keyboard |-> DefaultKeyboard]

valid_modes == {StrV("clean"), StrV("verbose"), StrV("debug")}

NoConfig == [display |-> << >>, colors |-> << >>, keyboard |-> << >>]

NoFile == [kind |-> "missing", data |-> << >>]
CorruptFile == [kind |-> "corrupt", data |-> << >>]
JsonFile(d) == [kind |-> "json", data |-> d]

\* _load_from_file: the parsed dictionary, or None
LoadFromFile(f) == IF f.kind = "json" THEN f.data ELSE << >>

\* _merge_config on one section: both values are dictionaries
MergeSection(base, override) ==
    [k \in DOMAIN base |-> IF k \in DOMAIN override THEN override[k] ELSE base[k]]

\* _merge_config on the top level: only keys of base are taken
MergeConfig(base, override) ==
    [sec \in DOMAIN base |->
        IF sec \in DOMAIN override
        THEN MergeSection(base[sec], override[sec])
        ELSE base[sec]]

\* _str_to_bool
StrToBool(value) == Join(Lower(value)) \in {"true", "1", "yes", "on"}

env_mappings ==
    [RF_DEFAULT_MODE          |-> [key |-> "default_mode", conv |-> "str"],
     RF_ENABLE_COLORS         |-> [key |-> "enable_colors", conv |-> "bool"],
     RF_ENABLE_INTERACTIVE    |-> [key |-> "enable_interactive", conv |-> "bool"],
     RF_ENABLE_COST_TRACKING  |-> [key |-> "enable_cost_tracking", conv |-> "bool"],
     RF_SHOW_TIMESTAMPS       |-> [key |-> "show_timestamps", conv |-> "bool"],
     RF_SHOW_MODEL_INFO       |-> [key |-> "show_model_info", conv |-> "bool"],
     RF_MAX_CONTENT_LENGTH    |-> [key |-> "max_content_length", conv |-> "int"],
     RF_TRUNCATE_LONG_CONTENT |-> [key |-> "truncate_long_content", conv |-> "bool"]]

\* converter(value) raises ValueError
ConvertRaises(conv, value) == conv = "int" /\ ~IntParses(value)

\* converter(value)
Convert(conv, value) ==
    CASE conv = "str"  -> StrV(Join(value))
      [] conv = "bool" -> BoolV(StrToBool(value))
      [] conv = "int"  -> IntV(IntOf(value))

\* the environment variable that sets a display key
EnvVarOf(key) == CHOOSE v \in DOMAIN env_mappings : env_mappings[v].key = key

\* _load_from_env: a variable that is set and converts replaces the value
LoadFromEnv(display, e) ==
    [k \in DOMAIN display |->
        LET v == EnvVarOf(k)
        IN  IF v \in DOMAIN e /\ ~ConvertRaises(env_mappings[v].conv, e[v])
            THEN Convert(env_mappings[v].conv, e[v])
            ELSE display[k]]

\* _load_config with the two sources in the other order: the environment
\* first, the settings file over it
LoadConfigData_FileLast(f, e) ==
    LET config_file_data == LoadFromFile(f)
        from_env == [DefaultConfigData EXCEPT
                        !.display = LoadFromEnv(DefaultConfigData.display, e)]
    IN  IF DOMAIN config_file_data # {}
        THEN MergeConfig(from_env, config_file_data)
        ELSE from_env

\* _load_config up to the construction of the Config object
LoadConfigData(f, e) ==
    LET config_file_data == LoadFromFile(f)
        merged == IF DOMAIN config_file_data # {}
                  THEN MergeConfig(DefaultConfigData, config_file_data)
                  ELSE DefaultConfigData
    IN  [merged EXCEPT !.display = LoadFromEnv(merged.display, e)]

\* Config.__post_init__ raises TypeError: the mode is tested against a set
PostInitRaises(data) == ~Hashable(data.display.default_mode)

\* Config.__post_init__ without the validation
PostInit_NoValidation(data) == data

\* Config.__post_init__
PostInit(data) ==
    IF data.display.default_mode \notin valid_modes
    THEN [data EXCEPT !.display.default_mode = StrV("clean")]
    ELSE data

\* save_config: the dictionary written to the file
SavedFile(cfg) ==
    JsonFile([display |-> cfg.display, colors |-> cfg.colors, keyboard |-> cfg.keyboard])

\* update_display_mode: the configuration it leaves
UpdatedConfig(cfg, mode) ==
    IF mode \in valid_modes
    THEN [cfg EXCEPT !.display.default_mode = mode]
    ELSE cfg

\* update_display_mode saving the configuration whatever the mode
UpdateSaves_Always(mode) == TRUE

\* update_display_mode: whether save_config is called
UpdateSaves(mode) == mode \in valid_modes

\* apply_cli_overrides, lines 139-146: the in-memory overrides
FlagOverrides(cfg, a) ==
    [cfg EXCEPT
        !.display.enable_colors =
            IF a.no_colors THEN BoolV(FALSE) ELSE @,
        !.display.enable_interactive =
            IF a.no_interactive THEN BoolV(FALSE) ELSE @,
        !.display.enable_cost_tracking =
            IF a.no_cost_tracking THEN BoolV(FALSE) ELSE @]

-----------------------------------------------------------------------------
(* The inputs of the configuration: settings files, environments and       *)
(* command lines.                                                          *)

MaxSettings == 2

\* entries a settings file may hold: known and unknown keys, valid and invalid values
FileEntries ==
    { [sec |-> "display", key |-> "default_mode", val |-> v] :
          v \in {StrV("verbose"), StrV("bogus"), IntV(5), ListV} }
    \cup
    { [sec |-> "display", key |-> "enable_colors", val |-> BoolV(FALSE)],
      [sec |-> "display", key |-> "enable_interactive", val |-> BoolV(FALSE)],
      [sec |-> "display", key |-> "enable_cost_tracking", val |-> BoolV(FALSE)],
      [sec |-> "display", key |-> "show_timestamps", val |-> BoolV(TRUE)],
      [sec |-> "display", key |-> "show_model_info", val |-> BoolV(TRUE)],
      [sec |-> "display", key |-> "max_content_length", val |-> IntV(500)],
      [sec |-> "display", key |-> "truncate_long_content", val |-> BoolV(FALSE)],
      [sec |-> "display", key |-> "font", val |-> StrV("mono")],
      [sec |-> "colors", key |-> "content", val |-> StrV("red")],
      [sec |-> "theme", key |-> "name", val |-> StrV("dark")] }

\* the JSON object holding the entries S
FileData(S) ==
    [sec \in {e.sec : e \in S} |->
        [k \in {e.key : e \in {x \in S : x.sec = sec}} |->
            (CHOOSE e \in S : e.sec = sec /\ e.key = k).val]]

\* raw values of environment variables
EnvEntries ==
    { [var |-> "RF_DEFAULT_MODE", val |-> v] :
          v \in { <<"d","e","b","u","g">>, <<"D","e","b","u","g">>, << >> } }
    \cup
    { [var |-> "RF_ENABLE_COLORS", val |-> v] :
          v \in { <<"f","a","l","s","e">>, <<"Y","e","s">> } }
    \cup
    { [var |-> "RF_MAX_CONTENT_LENGTH", val |-> v] :
          v \in { <<"5","0">>, <<"a","b","c">>, <<" ","7","\n">> } }
    \cup
    { [var |-> "RF_ENABLE_INTERACTIVE", val |-> <<"n","o">>],
      [var |-> "RF_ENABLE_COST_TRACKING", val |-> <<"0">>],
      [var |-> "RF_SHOW_TIMESTAMPS", val |-> <<"1">>],
      [var |-> "RF_SHOW_MODEL_INFO", val |-> <<"O","N">>],
      [var |-> "RF_TRUNCATE_LONG_CONTENT", val |-> <<"t","r","u","e","!">>] }

EnvOf(S) == [v \in {e.var : e \in S} |-> (CHOOSE e \in S : e.var = v).val]

\* the subsets of S with at most k elements
RECURSIVE SubsetsUpTo(_, _)
SubsetsUpTo(S, k) ==
    IF k = 0 THEN {{}}
    ELSE LET smaller == SubsetsUpTo(S, k - 1)
         IN  smaller \cup {T \cup {e} : T \in smaller, e \in S}

\* the settings given from outside: file entries and environment variables,
\* at most MaxSettings of them together, no key and no variable twice
Sources ==
    LET tagged == {[from |-> "file", e |-> x] : x \in FileEntries}
                  \cup {[from |-> "env", e |-> x] : x \in EnvEntries}
        pick(T) == [fileEntries |-> {x.e : x \in {y \in T : y.from = "file"}},
                    envEntries  |-> {x.e : x \in {y \in T : y.from = "env"}}]
    IN  { src \in {pick(T) : T \in SubsetsUpTo(tagged, MaxSettings)} :
            /\ \A e1, e2 \in src.fileEntries :
                  (e1.sec = e2.sec /\ e1.key = e2.key) => e1 = e2
            /\ \A e1, e2 \in src.envEntries : e1.var = e2.var => e1 = e2 }

\* the settings files holding the entries S: none and an unreadable one
\* when there are no entries
FilesOf(S) ==
    {JsonFile(FileData(S))} \cup (IF S = {} THEN {NoFile, CorruptFile} ELSE {})

\* parse_arguments: --mode takes one of three choices, the flags are store_true
CommandLines ==
    [mode : {NoneV} \cup valid_modes,
     no_colors : BOOLEAN, no_interactive : BOOLEAN, no_cost_tracking : BOOLEAN]

NoArgs ==
    [mode |-> NoneV, no_colors |-> FALSE, no_interactive |-> FALSE,
     no_cost_tracking |-> FALSE]

\* arguments a caller may pass to update_display_mode
ModeArguments == valid_modes \cup {StrV("CLEAN"), NoneV}

-----------------------------------------------------------------------------
(* Python objects, as the extractor probes them: hasattr, getattr, str.    *)

\* an object of class cls with the given attributes, in declaration order
Obj(cls, fields) == [t |-> "obj", cls |-> cls, fields |-> fields]
Attr(name, val) == [name |-> name, val |-> val]
DictV(fields) == [t |-> "dict", fields |-> fields]
ListOf(items) == [t |-> "list", items |-> items]
\* a bound method, such as "abc".index
MethodV == [t |-> "method"]

HasField(fields, a) == \E i \in 1..Len(fields) : fields[i].name = a
FieldOf(fields, a) ==
    fields[CHOOSE i \in 1..Len(fields) :
              /\ fields[i].name = a
              /\ \A j \in 1..(i - 1) : fields[j].name # a].val

\* hasattr(v, a), for the attribute names the extractor probes; of these
\* names, str and list objects have only the method index
HasAttr(v, a) ==
    CASE v.t = "obj" -> a = "__dict__" \/ HasField(v.fields, a)
      [] v.t \in {"text", "str", "list"} -> a = "index"
      [] OTHER -> FALSE

\* getattr(v, a), where hasattr(v, a)
GetAttr(v, a) ==
    IF v.t = "obj"
    THEN IF a = "__dict__" THEN DictV(v.fields) ELSE FieldOf(v.fields, a)
    ELSE MethodV

\* isinstance(v, str)
IsStr(v) == v.t \in {"text", "str"}

RECURSIVE Str(_)
RECURSIVE Repr(_)
RECURSIVE ReprFields(_, _)
RECURSIVE ReprItems(_)

\* str(v), as the sequence of the tokens it is made of
Str(v) ==
    CASE v.t = "text"   -> v.toks
      [] v.t = "str"    -> <<v.s>>
      [] v.t = "None"   -> <<"None">>
      [] v.t = "bool"   -> IF v.b THEN <<"True">> ELSE <<"False">>
      [] v.t = "int"    -> <<ToString(v.n)>>
      [] v.t = "method" -> <<"<built-in method>">>
      [] v.t = "list"   -> <<"[">> \o ReprItems(v.items) \o <<"]">>
      [] v.t = "dict"   -> <<"{">> \o ReprFields(v.fields, ": ") \o <<"}">>
      [] v.t = "obj"    -> <<v.cls, "(">> \o ReprFields(v.fields, "=") \o <<")">>

\* repr(v): a string is quoted
Repr(v) == IF IsStr(v) THEN <<"'">> \o Str(v) \o <<"'">> ELSE Str(v)

ReprFields(fields, sep) ==
    IF fields = << >> THEN << >>
    ELSE <<Head(fields).name, sep>> \o Repr(Head(fields).val)
         \o (IF Len(fields) > 1 THEN <<", ">> ELSE << >>)
         \o ReprFields(Tail(fields), sep)

ReprItems(items) ==
    IF items = << >> THEN << >>
    ELSE Repr(Head(items))
         \o (IF Len(items) > 1 THEN <<", ">> ELSE << >>)
         \o ReprItems(Tail(items))

-----------------------------------------------------------------------------
(* response_formatter.py: ContentExtractor                                 *)

\* ExtractedContent(): every field None
EmptyContent ==
    [text |-> NoneV, reasoning |-> NoneV, usage |-> NoneV, model |-> NoneV,
     timestamp |-> NoneV, metadata |-> NoneV, error |-> NoneV,
     raw_response |-> NoneV]

\* time.time()
Now == [t |-> "float"]

text_attributes ==
    <<"text", "content", "message", "response", "output", "result", "answer",
      "completion">>

reasoning_attributes == <<"reasoning", "explanation", "rationale", "logic">>

model_attributes == <<"model", "model_name", "engine">>

metadata_attrs ==
    <<"id", "created", "object", "system_fingerprint", "finish_reason",
      "logprobs", "index">>

usage_attrs ==
    << [key |-> "prompt_tokens", attrs |-> <<"prompt_tokens", "input_tokens">>],
       [key |-> "completion_tokens", attrs |-> <<"completion_tokens", "output_tokens">>],
       [key |-> "total_tokens", attrs |-> <<"total_tokens">>] >>

\* _extract_text_from_object: the loop over text_attributes from position i
RECURSIVE ExtractTextFrom(_, _)
ExtractTextFrom(r, i) ==
    IF i > Len(text_attributes) THEN TextV(Str(r))
    ELSE IF ~HasAttr(r, text_attributes[i]) THEN ExtractTextFrom(r, i + 1)
    ELSE LET value == GetAttr(r, text_attributes[i])
         IN  IF IsStr(value) THEN value
             ELSE IF HasAttr(value, "content") THEN TextV(Str(GetAttr(value, "content")))
             ELSE IF HasAttr(value, "text") THEN TextV(Str(GetAttr(value, "text")))
             ELSE ExtractTextFrom(r, i + 1)

\* _extract_text_from_object
ExtractTextFromObject(r) == ExtractTextFrom(r, 1)

\* _extract_reasoning: the first attribute that is present and truthy
RECURSIVE ExtractReasoningFrom(_, _)
ExtractReasoningFrom(r, i) ==
    IF i > Len(reasoning_attributes) THEN NoneV
    ELSE IF HasAttr(r, reasoning_attributes[i])
            /\ Truthy(GetAttr(r, reasoning_attributes[i]))
         THEN TextV(Str(GetAttr(r, reasoning_attributes[i])))
         ELSE ExtractReasoningFrom(r, i + 1)

ExtractReasoning(r) == ExtractReasoningFrom(r, 1)

\* the first attribute of attrs the response has, from position j; 0 when none
RECURSIVE FirstAttr(_, _, _)
FirstAttr(r, attrs, j) ==
    IF j > Len(attrs) THEN 0
    ELSE IF HasAttr(r, attrs[j]) THEN j ELSE FirstAttr(r, attrs, j + 1)

\* _extract_usage, lines 136-151: the tokens found on the response itself
RECURSIVE UsageDataFrom(_, _)
UsageDataFrom(r, i) ==
    IF i > Len(usage_attrs) THEN << >>
    ELSE LET j == FirstAttr(r, usage_attrs[i].attrs, 1)
         IN  (IF j = 0 THEN << >>
              ELSE <<Attr(usage_attrs[i].key, GetAttr(r, usage_attrs[i].attrs[j]))>>)
             \o UsageDataFrom(r, i + 1)

\* _extract_usage
ExtractUsage(r) ==
    LET direct == HasAttr(r, "usage")
        usage == GetAttr(r, "usage")
        usage_data == UsageDataFrom(r, 1)
    IN  IF direct /\ HasAttr(usage, "__dict__") THEN GetAttr(usage, "__dict__")
        ELSE IF direct /\ usage.t = "dict" THEN usage
        ELSE IF usage_data # << >> THEN DictV(usage_data) ELSE NoneV

\* _extract_model: the first attribute that is present, whatever its value
ExtractModel(r) ==
    LET j == FirstAttr(r, model_attributes, 1)
    IN  IF j = 0 THEN NoneV ELSE TextV(Str(GetAttr(r, model_attributes[j])))

\* _extract_metadata: the attributes that are present and not None
RECURSIVE MetadataFrom(_, _)
MetadataFrom(r, i) ==
    IF i > Len(metadata_attrs) THEN << >>
    ELSE (IF HasAttr(r, metadata_attrs[i]) /\ GetAttr(r, metadata_attrs[i]) # NoneV
          THEN <<Attr(metadata_attrs[i], GetAttr(r, metadata_attrs[i]))>>
          ELSE << >>)
         \o MetadataFrom(r, i + 1)

ExtractMetadata(r) ==
    LET metadata == MetadataFrom(r, 1)
    IN  IF metadata # << >> THEN DictV(metadata) ELSE NoneV

\* extract, lines 51-69: the branch taken to find the text
TextBranch(r) ==
    IF HasAttr(r, "text") THEN "text"
    ELSE IF HasAttr(r, "choices") /\ Truthy(GetAttr(r, "choices")) THEN "choices"
    ELSE IF HasAttr(r, "content") THEN "content"
    ELSE IF IsStr(r) THEN "str"
    ELSE "object"

\* extract, lines 56-60: choices[0].message.content raises AttributeError
\* when the message has no content attribute (a message that is None)
ChoiceRaises(r) ==
    LET choice == GetAttr(r, "choices").items[1]
    IN  /\ HasAttr(choice, "message")
        /\ ~HasAttr(GetAttr(choice, "message"), "content")

\* extract, lines 56-60
ChoiceText(r) ==
    LET choice == GetAttr(r, "choices").items[1]
    IN  IF HasAttr(choice, "message") THEN GetAttr(GetAttr(choice, "message"), "content")
        ELSE IF HasAttr(choice, "text") THEN GetAttr(choice, "text")
        ELSE NoneV

\* extract, lines 51-69
ExtractText(r) ==
    CASE TextBranch(r) = "text"    -> TextV(Str(GetAttr(r, "text")))
      [] TextBranch(r) = "choices" -> ChoiceText(r)
      [] TextBranch(r) = "content" -> TextV(Str(GetAttr(r, "content")))
      [] TextBranch(r) = "str"     -> r
      [] TextBranch(r) = "object"  -> ExtractTextFromObject(r)

\* extract: an exception is raised inside the try block
ExtractRaises(r) == TextBranch(r) = "choices" /\ ChoiceRaises(r)

\* extract, lines 46-83: the content when no step raises
ExtractedFrom(r) ==
    [text |-> ExtractText(r),
     reasoning |-> ExtractReasoning(r),
     usage |-> ExtractUsage(r),
     model |-> ExtractModel(r),
     timestamp |-> Now,
     metadata |-> ExtractMetadata(r),
     error |-> NoneV,
     raw_response |-> r]

\* extract, lines 85-91: the content returned by the except clause
ExtractFailed(r) ==
    [EmptyContent EXCEPT
        !.error = TextV(<<"Failed to extract content: ", "AttributeError">>),
        !.raw_response = r,
        !.timestamp = Now]

\* extract with an except clause that keeps the error only
Extract_ErrorOnly(r) ==
    IF ExtractRaises(r)
    THEN [EmptyContent EXCEPT
            !.error = TextV(<<"Failed to extract content: ", "AttributeError">>)]
    ELSE ExtractedFrom(r)

\* ContentExtractor.extract
Extract(r) ==
    IF ExtractRaises(r) THEN ExtractFailed(r) ELSE ExtractedFrom(r)

-----------------------------------------------------------------------------
(* display_utils.py.  What is put on the console is a sequence of events:  *)
(* the element printed, its title, its style and its text.  The length of  *)
(* a text is counted in tokens.                                            *)

Event(el, title, style, text) ==
    [el |-> el, title |-> title, style |-> style, text |-> text]

\* ColorFormatter: the configured color, or white when colors are disabled
ColorOf(cfg, kind) ==
    IF Truthy(cfg.display.enable_colors) THEN cfg.colors[kind].s ELSE "white"

format_header(cfg, text) == Event("header", "", "bold " \o ColorOf(cfg, "header"), text)
format_content(cfg, text) == Event("content", "", ColorOf(cfg, "content"), text)
format_error(cfg, text) == Event("error", "", "bold " \o ColorOf(cfg, "error"), text)
format_warning(cfg, text) == Event("warning", "", ColorOf(cfg, "warning"), text)
format_technical(cfg, text) == Event("technical", "", ColorOf(cfg, "technical"), text)
format_reasoning(cfg, text) == Event("reasoning", "", ColorOf(cfg, "reasoning"), text)
format_usage(cfg, text) == Event("usage", "", ColorOf(cfg, "usage"), text)

\* Panel(content, title=..., border_style=...): the border, then the content
Panel(title, border_style, content) ==
    <<Event("panel", title, border_style, << >>)>> \o content

\* create_separator
Separator == Event("separator", "", "dim", <<"-">>)

\* InteractiveDisplay.__init__ followed by ResponseFormatter.__init__, line 258
NewInteractiveDisplay(cfg, mode) ==
    [current_mode |-> Or(mode, cfg.display.default_mode),
     expanded_sections |-> << >>,
     keyboard_enabled |-> Truthy(cfg.display.enable_interactive)]

\* str.upper() of the mode names of the model
UpperOf(m) ==
    CASE m = "clean"   -> "CLEAN"
      [] m = "verbose" -> "VERBOSE"
      [] m = "debug"   -> "DEBUG"
      [] m = "fancy"   -> "FANCY"
      [] OTHER         -> m

\* create_mode_indicator, as the f-string of lines 318 and 376 prints it:
\* the plain text of the indicator, its color is dropped
ModeIndicator(disp) ==
    Event("mode_indicator", "", "", <<"Response ", "[", UpperOf(disp.current_mode.s), "]">>)

\* 'title in self.expanded_sections'
IsSection(disp, title) ==
    \E i \in 1..Len(disp.expanded_sections) : disp.expanded_sections[i].title = title

\* create_interaction_hints: the hints, empty when there is nothing to show
InteractionHints(cfg, disp) ==
    LET m == disp.current_mode
        hints ==
            (IF m # StrV("clean") THEN <<"'" \o cfg.keyboard.clean_mode.s \o "'=clean">> ELSE << >>)
            \o (IF m # StrV("verbose") THEN <<"'" \o cfg.keyboard.verbose_mode.s \o "'=verbose">> ELSE << >>)
            \o (IF m # StrV("debug") THEN <<"'" \o cfg.keyboard.debug_mode.s \o "'=debug">> ELSE << >>)
            \o (IF IsSection(disp, "reasoning")
                THEN <<"'" \o cfg.keyboard.reasoning.s \o "'=reasoning">> ELSE << >>)
    IN  IF disp.keyboard_enabled /\ hints # << >>
        THEN <<Event("hints", "", "dim", <<"[Press ">> \o hints \o <<"]">>)>>
        ELSE << >>

\* create_expandable_section: the display with the section registered
WithSection(disp, title, expanded) ==
    [disp EXCEPT !.expanded_sections =
        IF IsSection(disp, title)
        THEN [i \in 1..Len(@) |->
                IF @[i].title = title THEN [title |-> title, expanded |-> expanded] ELSE @[i]]
        ELSE Append(@, [title |-> title, expanded |-> expanded])]

PreviewLength == 100

\* create_expandable_section: the panel
ExpandableSection(title, content, expanded, style) ==
    IF expanded
    THEN Panel("v " \o title, style, <<Event("section", title, "", content)>>)
    ELSE Panel("> " \o title, style,
               <<Event("section", title, "dim",
                       IF Len(content) > PreviewLength
                       THEN SubSeq(content, 1, PreviewLength) \o <<"...">>
                       ELSE content),
                 Event("section", title, "dim italic", <<"Press space to expand">>)>>)

\* 'self.expanded_sections[title] = not self.expanded_sections[title]'
Toggled(disp, title) ==
    LET secs == disp.expanded_sections
    IN  [disp EXCEPT !.expanded_sections =
            [i \in 1..Len(secs) |->
                IF secs[i].title = title
                THEN [title |-> title, expanded |-> ~secs[i].expanded]
                ELSE secs[i]]]

\* InteractiveDisplay._handle_key_press: the display after the key
HandleKeyPress(disp, keyboard, key) ==
    LET secs == disp.expanded_sections
    IN  IF key = keyboard.clean_mode.s
        THEN [disp EXCEPT !.current_mode = StrV("clean")]
        ELSE IF key = keyboard.verbose_mode.s
        THEN [disp EXCEPT !.current_mode = StrV("verbose")]
        ELSE IF key = keyboard.debug_mode.s
        THEN [disp EXCEPT !.current_mode = StrV("debug")]
        ELSE IF key = keyboard.reasoning.s /\ IsSection(disp, "reasoning")
        THEN Toggled(disp, "reasoning")
        ELSE IF key = keyboard.expand_collapse.s
        THEN IF secs # << >> THEN Toggled(disp, secs[Len(secs)].title) ELSE disp
        ELSE disp

\* _handle_key_press, line 74: the key reaches the exit_interactive branch
StopsListener(disp, keyboard, key) ==
    /\ key \notin {keyboard.clean_mode.s, keyboard.verbose_mode.s, keyboard.debug_mode.s}
    /\ ~(key = keyboard.reasoning.s /\ IsSection(disp, "reasoning"))
    /\ key # keyboard.expand_collapse.s
    /\ key = keyboard.exit_interactive.s

\* str.rfind(' '), 0-based, -1 when there is none
RFindSpace(text) ==
    IF \E i \in 1..Len(text) : text[i] = " "
    THEN (CHOOSE i \in 1..Len(text) :
            text[i] = " " /\ \A j \in (i + 1)..Len(text) : text[j] # " ") - 1
    ELSE 0 - 1

\* truncate_content, line 255: 'len(content) <= max_len' raises TypeError when
\* max_content_length, which the settings file may set to any JSON value, is
\* not a number
TruncateRaises(cfg) ==
    /\ Truthy(cfg.display.truncate_long_content)
    /\ cfg.display.max_content_length.t \notin {"int", "bool"}

\* ContentTruncator.truncate_content with max_length None
truncate_content(cfg, content) ==
    LET max_len == cfg.display.max_content_length.n
        truncated == SubSeq(content, 1, max_len)
        last_space == RFindSpace(truncated)
    IN  IF ~Truthy(cfg.display.truncate_long_content) THEN content
        ELSE IF Len(content) <= max_len THEN content
        ELSE IF 10 * last_space > 8 * max_len
             THEN SubSeq(truncated, 1, last_space) \o <<"...">>
             ELSE truncated \o <<"...">>

\* key.replace('_', ' ').title(), for the keys of the model
TitleOf(key) ==
    CASE key = "prompt_tokens"     -> "Prompt Tokens"
      [] key = "completion_tokens" -> "Completion Tokens"
      [] key = "input_tokens"      -> "Input Tokens"
      [] key = "output_tokens"     -> "Output Tokens"
      [] key = "total_tokens"      -> "Total Tokens"
      [] key = "finish_reason"     -> "Finish Reason"
      [] key = "id"                -> "Id"
      [] key = "created"           -> "Created"
      [] key = "object"            -> "Object"
      [] key = "index"             -> "Index"
      [] OTHER                     -> key

RECURSIVE TableRows(_, _, _)
TableRows(fields, limit, skipNone) ==
    IF fields = << >> THEN << >>
    ELSE LET f == Head(fields)
             str_value == Str(f.val)
             shown == IF limit > 0 /\ Len(str_value) > limit
                      THEN SubSeq(str_value, 1, limit - 3) \o <<"...">>
                      ELSE str_value
         IN  (IF skipNone /\ f.val = NoneV THEN << >>
              ELSE <<Event("row", TitleOf(f.name), "", shown)>>)
             \o TableRows(Tail(fields), limit, skipNone)

\* TableFormatter.create_usage_table
create_usage_table(usage) ==
    <<Event("table", "Usage Statistics", "", << >>),
      Event("column", "Metric", "cyan", << >>),
      Event("column", "Value", "magenta", << >>)>>
    \o TableRows(usage.fields, 0, FALSE)

MetadataValueLimit == 50

\* TableFormatter.create_metadata_table
create_metadata_table(metadata) ==
    <<Event("table", "Response Metadata", "", << >>),
      Event("column", "Property", "cyan", << >>),
      Event("column", "Value", "white", << >>)>>
    \o TableRows(metadata.fields, MetadataValueLimit, TRUE)

\* dict.get(key, 0)
DictGet(d, key) == IF HasField(d.fields, key) THEN FieldOf(d.fields, key) ELSE IntV(0)

\* calculate_cost: the prices per 1K tokens, in 1/10000 of a dollar
pricing ==
    [m \in {"o3", "gpt-4", "gpt-3.5-turbo"} |->
        IF m = "gpt-3.5-turbo" THEN [input |-> 15, output |-> 20]
        ELSE [input |-> 300, output |-> 600]]

\* calculate_cost raises TypeError: a token count that is not a number is divided
CostRaises(usage, model) ==
    LET input_tokens == DictGet(usage, "prompt_tokens")
        output_tokens == DictGet(usage, "completion_tokens")
    IN  /\ Join(model.toks) \in DOMAIN pricing
        /\ Truthy(input_tokens) \/ Truthy(output_tokens)
        /\ input_tokens.t # "int" \/ output_tokens.t # "int"

\* calculate_cost: the cost in 1/10000000 of a dollar, 0 for None
calculate_cost(usage, model) ==
    LET input_tokens == DictGet(usage, "prompt_tokens")
        output_tokens == DictGet(usage, "completion_tokens")
    IN  IF Join(model.toks) \notin DOMAIN pricing THEN 0
        ELSE IF ~Truthy(input_tokens) /\ ~Truthy(output_tokens) THEN 0
        ELSE input_tokens.n * pricing[Join(model.toks)].input
             + output_tokens.n * pricing[Join(model.toks)].output

-----------------------------------------------------------------------------
(* response_formatter.py: ErrorHandler and ResponseFormatter.  A rendering *)
(* operator yields the events printed, whether it raised, and the          *)
(* interactive display it leaves.                                          *)

RawErrorLimit == 1000
RawDebugLimit == 2000

\* json.dumps without default= raises TypeError on an object
RECURSIVE JsonSerializable(_)
JsonSerializable(v) ==
    CASE v.t \in {"None", "str", "text", "bool", "int"} -> TRUE
      [] v.t = "list" -> \A i \in 1..Len(v.items) : JsonSerializable(v.items[i])
      [] v.t = "dict" -> \A i \in 1..Len(v.fields) : JsonSerializable(v.fields[i].val)
      [] OTHER -> FALSE

\* _show_raw_response_on_error: the text shown
RawErrorText(raw) ==
    LET raw_text == IF HasAttr(raw, "__dict__") /\ JsonSerializable(GetAttr(raw, "__dict__"))
                    THEN Str(GetAttr(raw, "__dict__"))
                    ELSE Str(raw)
    IN  IF Len(raw_text) > RawErrorLimit
        THEN SubSeq(raw_text, 1, RawErrorLimit) \o <<"...">>
        ELSE raw_text

\* ErrorHandler.handle_extraction_error
handle_extraction_error(cfg, error, raw_response) ==
    Panel("Error", "red",
          <<format_error(cfg, <<"Content Extraction Error">> \o error.toks)>>)
    \o (IF cfg.display.default_mode = StrV("debug")
        THEN Panel("Raw Response (Debug)", "dim",
                   <<format_technical(cfg, RawErrorText(raw_response))>>)
        ELSE << >>)

\* ErrorHandler.handle_formatting_error
handle_formatting_error(cfg, error, content) ==
    IF Truthy(content.text)
    THEN <<format_header(cfg, <<"Assistant:">>),
           format_content(cfg, content.text.toks),
           format_error(cfg, <<"Formatting Error: ", error>>)>>
    ELSE Panel("Formatting Error", "red",
               <<format_error(cfg, <<"Formatting Error: ", error>>)>>)

Rendering(out, raises, disp) == [out |-> out, raises |-> raises, disp |-> disp]

\* _format_clean
FormatClean(cfg, disp, content) ==
    IF ~Truthy(content.text)
    THEN Rendering(<<format_warning(cfg, <<"No response content available.">>)>>,
                   FALSE, disp)
    ELSE IF TruncateRaises(cfg)
    THEN Rendering(<<format_header(cfg, <<"Assistant: ">>)>>, TRUE, disp)
    ELSE Rendering(
            <<format_header(cfg, <<"Assistant: ">>),
              format_content(cfg, truncate_content(cfg, content.text.toks))>>
            \o InteractionHints(cfg, disp),
            FALSE, disp)

\* lines 359-364 and 476-481: the cost line
CostWanted(cfg, content) ==
    /\ Truthy(content.usage)
    /\ Truthy(content.model)
    /\ Truthy(cfg.display.enable_cost_tracking)

CostLine(cfg, content) ==
    IF CostWanted(cfg, content) /\ calculate_cost(content.usage, content.model) # 0
    THEN <<format_usage(cfg, <<"Estimated cost: $",
                               ToString(calculate_cost(content.usage, content.model))>>)>>
    ELSE << >>

\* the "Assistant Response" panel of the verbose and debug modes
ContentPanel(cfg, content) ==
    IF Truthy(content.text)
    THEN Panel("Assistant Response", "cyan", <<format_content(cfg, content.text.toks)>>)
    ELSE << >>

\* the verbose and debug modes without the usage statistics
UsagePanel_None(content) == << >>

\* lines 342-350 and 410-422: the "Usage Statistics" panel
UsagePanel(content) ==
    IF Truthy(content.usage)
    THEN Panel("Usage Statistics", "magenta", create_usage_table(content.usage))
    ELSE << >>

\* _format_verbose
FormatVerbose(cfg, disp, content) ==
    LET disp2 == IF Truthy(content.reasoning)
                 THEN WithSection(disp, "Reasoning", FALSE)
                 ELSE disp
        head == <<ModeIndicator(disp), Separator>>
                \o ContentPanel(cfg, content)
                \o (IF Truthy(content.reasoning)
                    THEN ExpandableSection("Reasoning", content.reasoning.toks, FALSE, "blue")
                    ELSE << >>)
                \o UsagePanel(content)
    IN  IF CostWanted(cfg, content) /\ CostRaises(content.usage, content.model)
        THEN Rendering(head, TRUE, disp2)
        ELSE Rendering(head \o CostLine(cfg, content) \o InteractionHints(cfg, disp2),
                       FALSE, disp2)

\* _format_debug, lines 451-473: the raw response panel
RawPanel(cfg, content) ==
    LET raw == content.raw_response
        raw_text == IF HasAttr(raw, "__dict__") THEN Str(GetAttr(raw, "__dict__"))
                    ELSE Str(raw)
    IN  IF Truthy(raw)
        THEN Panel("Raw Response", "dim",
                   <<format_technical(cfg,
                        IF Len(raw_text) > RawDebugLimit
                        THEN SubSeq(raw_text, 1, RawDebugLimit) \o <<"... (truncated)">>
                        ELSE raw_text)>>)
        ELSE << >>

\* _format_debug
FormatDebug(cfg, disp, content) ==
    LET info == IF Truthy(content.model) \/ content.timestamp # NoneV
                THEN Panel("Model Info", "dim",
                        (IF Truthy(content.model)
                         THEN <<Event("info", "Model", "", content.model.toks)>> ELSE << >>)
                        \o (IF content.timestamp # NoneV
                            THEN <<Event("info", "Timestamp", "", <<"now">>)>> ELSE << >>))
                ELSE << >>
        meta == IF Truthy(content.metadata)
                THEN Panel("Metadata", "blue", create_metadata_table(content.metadata))
                ELSE << >>
        head == <<ModeIndicator(disp), Separator>>
                \o ContentPanel(cfg, content)
                \o info \o UsagePanel(content) \o meta
                \o (IF Truthy(content.reasoning)
                    THEN Panel("Reasoning", "blue",
                               <<format_reasoning(cfg, content.reasoning.toks)>>)
                    ELSE << >>)
                \o RawPanel(cfg, content)
    IN  IF CostWanted(cfg, content) /\ CostRaises(content.usage, content.model)
        THEN Rendering(head, TRUE, disp)
        ELSE Rendering(head \o CostLine(cfg, content) \o InteractionHints(cfg, disp),
                       FALSE, disp)

\* lines 281-289 with the fallback of the else branch taken for "debug" too
BranchOf_NoDebug(mode) ==
    IF mode = StrV("clean") THEN "clean"
    ELSE IF mode = StrV("verbose") THEN "verbose"
    ELSE "clean"

\* format_response, lines 281-289: the rendering branch for a display mode
BranchOf(mode) ==
    IF mode = StrV("clean") THEN "clean"
    ELSE IF mode = StrV("verbose") THEN "verbose"
    ELSE IF mode = StrV("debug") THEN "debug"
    ELSE "clean"

RunBranch(branch, cfg, disp, content) ==
    CASE branch = "clean"   -> FormatClean(cfg, disp, content)
      [] branch = "verbose" -> FormatVerbose(cfg, disp, content)
      [] branch = "debug"   -> FormatDebug(cfg, disp, content)

\* ResponseFormatter.format_response(response, mode) of a formatter whose mode
\* is self_mode and whose interactive display is disp.
\* fault is what the terminal does: "none"; "console", the console raises an
\* OSError from the first thing written, the progress indicator of line 266,
\* which is outside the try block; "interrupt", Ctrl-C while rendering.
FormatResponseWith(r, self_mode, disp, mode, cfg, fault) ==
    LET effective_mode == Or(mode, self_mode)
        content == Extract(r)
        branch == BranchOf(effective_mode)
        done == RunBranch(branch, cfg, disp, content)
    IN  IF fault = "console"
        THEN [branch |-> "none", out |-> << >>, raised |-> "Exception", disp |-> disp]
        ELSE IF fault = "interrupt"
        THEN [branch |-> "none", out |-> << >>, raised |-> "KeyboardInterrupt",
              disp |-> disp]
        ELSE IF Truthy(content.error)
        THEN [branch |-> "none",
              out |-> handle_extraction_error(cfg, content.error, content.raw_response),
              raised |-> "none", disp |-> disp]
        ELSE IF done.raises
        THEN [branch |-> branch,
              out |-> done.out \o handle_formatting_error(cfg, "TypeError", EmptyContent),
              raised |-> "none", disp |-> done.disp]
        ELSE [branch |-> branch, out |-> done.out, raised |-> "none", disp |-> done.disp]

\* ResponseFormatter(mode=formatter_mode).format_response(response, mode)
FormatterFormatResponse(r, formatter_mode, mode, cfg, fault) ==
    LET shown == FormatResponseWith(r, Or(formatter_mode, cfg.display.default_mode),
                                    NewInteractiveDisplay(cfg, formatter_mode),
                                    mode, cfg, fault)
    IN  [branch |-> shown.branch, out |-> shown.out, raised |-> shown.raised]

\* format_response(response, mode), the convenience function of line 491
format_response(r, mode, cfg, fault) ==
    FormatterFormatResponse(r, mode, NoneV, cfg, fault)

-----------------------------------------------------------------------------
(* The response objects of the model.                                      *)

\* the value of Response.text of the Responses API: the text-format
\* configuration sent with the request (line 194), not the reply
ResponseTextConfig ==
    Obj("ResponseTextConfig",
        <<Attr("format", Obj("ResponseFormatText", <<Attr("type", StrV("text"))>>))>>)

\* an output item carrying the reply text
OutputMessage(toks) ==
    Obj("ResponseOutputMessage",
        <<Attr("content", ListOf(<<Obj("ResponseOutputText", <<Attr("text", TextV(toks))>>)>>)),
          Attr("role", StrV("assistant")),
          Attr("type", StrV("message"))>>)

\* an output item asking for a call of a tool of TOOLS
FunctionToolCall(name, arguments) ==
    Obj("ResponseFunctionToolCall",
        <<Attr("arguments", TextV(arguments)),
          Attr("name", StrV(name)),
          Attr("type", StrV("function_call"))>>)

\* a Response object of the Responses API
ApiResponse(output) ==
    Obj("Response",
        <<Attr("id", StrV("resp_1")),
          Attr("model", StrV("o3-2025-04-16")),
          Attr("object", StrV("response")),
          Attr("output", ListOf(output)),
          Attr("reasoning", Obj("Reasoning", <<Attr("effort", StrV("medium")),
                                               Attr("summary", StrV("auto"))>>)),
          Attr("text", ResponseTextConfig),
          Attr("usage", Obj("ResponseUsage", <<Attr("input_tokens", IntV(12)),
                                               Attr("output_tokens", IntV(7)),
                                               Attr("total_tokens", IntV(19))>>))>>)

TextReply == ApiResponse(<<OutputMessage(<<"Hello", " ", "there">>)>>)
ToolCallReply == ApiResponse(<<FunctionToolCall("listEmails", <<"{\"userId\": \"u\"}">>)>>)

\* what client.responses.create may return in the chat loop
ApiResponses == {TextReply, ToolCallReply}

\* the tool calls a Responses API reply asks for
ToolCallsOf(r) ==
    IF r.t = "obj" /\ HasField(r.fields, "output")
    THEN {i \in 1..Len(FieldOf(r.fields, "output").items) :
            LET item == FieldOf(r.fields, "output").items[i]
            IN  /\ item.t = "obj"
                /\ HasField(item.fields, "type")
                /\ FieldOf(item.fields, "type") = StrV("function_call")}
    ELSE {}

ChatUsage ==
    Obj("CompletionUsage", <<Attr("prompt_tokens", IntV(12)),
                             Attr("completion_tokens", IntV(7)),
                             Attr("total_tokens", IntV(19))>>)

\* a ChatCompletion object with one choice
ChatCompletion(model, choice) ==
    Obj("ChatCompletion",
        <<Attr("id", StrV("chatcmpl_1")),
          Attr("choices", ListOf(<<choice>>)),
          Attr("created", IntV(17)),
          Attr("model", StrV(model)),
          Attr("object", StrV("chat.completion")),
          Attr("system_fingerprint", NoneV),
          Attr("usage", ChatUsage)>>)

MessageChoice(message) ==
    Obj("Choice", <<Attr("finish_reason", StrV("stop")), Attr("index", IntV(0)),
                    Attr("message", message)>>)

\* other objects the extractor and the formatter accept
OtherResponses ==
    { \* a chat completion with a text
      ChatCompletion("gpt-4",
          MessageChoice(Obj("ChatCompletionMessage",
              <<Attr("content", TextV(<<"Hi", " ", "from", " ", "chat">>)),
                Attr("role", StrV("assistant"))>>))),
      \* a chat completion whose message has no content (a function call)
      ChatCompletion("gpt-4",
          MessageChoice(Obj("ChatCompletionMessage",
              <<Attr("content", NoneV), Attr("role", StrV("assistant"))>>))),
      \* a chat completion whose choice holds no message object
      ChatCompletion("gpt-4", MessageChoice(NoneV)),
      \* a legacy completion: the choice holds the text
      Obj("Completion",
          <<Attr("choices", ListOf(<<Obj("CompletionChoice",
                                         <<Attr("text", TextV(<<"legacy">>))>>)>>)),
            Attr("model", StrV("gpt-3.5-turbo"))>>),
      \* a plain string
      TextV(<<"plain", " ", "string", " ", "reply", " ", "of", " ", "nine">>),
      \* an object with a content attribute, a reasoning and token counts
      Obj("Reply",
          <<Attr("content", TextV(<<"content", " ", "reply">>)),
            Attr("explanation", TextV(<<"because">>)),
            Attr("model_name", StrV("o3")),
            Attr("input_tokens", IntV(1000)),
            Attr("completion_tokens", IntV(10))>>),
      \* an object whose token count is not a number
      Obj("Reply",
          <<Attr("content", TextV(<<"content", " ", "reply">>)),
            Attr("model", StrV("o3")),
            Attr("usage", DictV(<<Attr("prompt_tokens", TextV(<<"12">>))>>))>>),
      \* an object with none of the attributes probed first
      Obj("Custom", <<Attr("answer", TextV(<<"42">>)), Attr("reasoning", NoneV)>>),
      \* an object with no attribute the extractor knows
      Obj("Opaque", << >>) }

Responses == ApiResponses \cup OtherResponses

-----------------------------------------------------------------------------
(* chat_cli.py: the chat loop of main()                                    *)

DEVELOPER_MESSAGE == [role |-> "developer", content |-> <<"DEVELOPER_INSTRUCTIONS">>]

NoRender == [branch |-> "none", out |-> << >>, raised |-> "none"]
NoCall == [function_name |-> "", arguments |-> << >>]
NoFormatter == [mode |-> NoneV]

MaxTurns == 2

\* what the user may type at the prompt
UserInputs ==
    { <<"q","u","i","t">>, <<"\t","E","x","I","T"," ","\n">>,
      << >>, <<" ","\t">>,
      <<"h","i">>, <<" ","Q","u","i","t"," ","n","o","w">> }

\* line 180 without .lower(): the comparison is case-sensitive
IsQuitInput_CaseSensitive(inp) == Join(Strip(inp)) \in {"quit", "exit"}

\* line 180
IsQuitInput(inp) == Join(Lower(Strip(inp))) \in {"quit", "exit"}

\* line 184
IsBlankInput(inp) == Strip(inp) = << >>

UserMessage(inp) == [role |-> "user", content |-> inp]
AssistantMessage(text) == [role |-> "assistant", content |-> text]

\* the number of user turns in the history
NumTurns == Cardinality({i \in 1..Len(messages) : messages[i].role = "user"})

\* lines 178-188: input() returns inp
ReadInput(inp) ==
    /\ pc = "input"
    /\ user_input' = inp
    /\ IF IsQuitInput(inp)
       THEN /\ console' = "Goodbye!"
            /\ pc' = "done"
            /\ UNCHANGED messages
       ELSE IF IsBlankInput(inp)
       THEN /\ console' = ""
            /\ pc' = "input"
            /\ UNCHANGED messages
       ELSE /\ NumTurns < MaxTurns
            /\ messages' = Append(messages, UserMessage(inp))
            /\ console' = ""
            /\ pc' = "call"
    /\ UNCHANGED <<keyVars, cfgVars, display_mode, response, apiCalls, rendered, graphVars>>

\* lines 178 and 226-228: input() raises (EOFError on a closed stdin)
ReadInputRaises ==
    /\ pc = "input"
    /\ console' = "Error occurred: EOFError"
    /\ pc' = "input"
    /\ UNCHANGED <<keyVars, cfgVars, display_mode, messages, user_input, response, apiCalls,
                   rendered, graphVars>>

\* lines 191-198: client.responses.create returns r
CallApiReturns(r) ==
    /\ pc = "call"
    /\ apiCalls' = Append(apiCalls, [input |-> messages, outcome |-> "returned"])
    /\ response' = r
    /\ console' = ""
    /\ pc' = "format"
    /\ UNCHANGED <<keyVars, cfgVars, display_mode, messages, user_input, rendered, graphVars>>

\* lines 191-198 with a retry: a failed call is made once more before the
\* error is printed
CallApiRaises_Retry ==
    /\ pc = "call"
    /\ apiCalls' = apiCalls \o <<[input |-> messages, outcome |-> "raised"],
                                 [input |-> messages, outcome |-> "raised"]>>
    /\ console' = "Error occurred: APIError"
    /\ pc' = "input"
    /\ UNCHANGED <<keyVars, cfgVars, display_mode, messages, user_input, response, rendered,
                   graphVars>>

\* lines 226-228 with a break: a failed call ends the loop
CallApiRaises_Exit ==
    /\ pc = "call"
    /\ apiCalls' = Append(apiCalls, [input |-> messages, outcome |-> "raised"])
    /\ console' = "Error occurred: APIError"
    /\ pc' = "done"
    /\ UNCHANGED <<keyVars, cfgVars, display_mode, messages, user_input, response, rendered,
                   graphVars>>

\* lines 191-198 and 226-228: client.responses.create raises
CallApiRaises ==
    /\ pc = "call"
    /\ apiCalls' = Append(apiCalls, [input |-> messages, outcome |-> "raised"])
    /\ console' = "Error occurred: APIError"
    /\ pc' = "input"
    /\ UNCHANGED <<keyVars, cfgVars, display_mode, messages, user_input, response, rendered,
                   graphVars>>

\* lines 223-225: Ctrl-C at the prompt, during the API call or while rendering
KeyboardInterrupt ==
    /\ pc \in {"input", "call", "format"}
    /\ apiCalls' = IF pc = "call"
                   THEN Append(apiCalls, [input |-> messages, outcome |-> "interrupted"])
                   ELSE apiCalls
    /\ rendered' = IF pc = "format"
                   THEN format_response(response, display_mode, config, "interrupt")
                   ELSE rendered
    /\ console' = "Session interrupted. Goodbye!"
    /\ pc' = "done"
    /\ UNCHANGED <<keyVars, cfgVars, display_mode, messages, user_input, response, graphVars>>

\* line 201: format_response(response, mode=display_mode); an exception that
\* leaves it is caught at line 226
FormatAndDisplay(fault) ==
    /\ pc = "format"
    /\ rendered' = format_response(response, display_mode, config, fault)
    /\ IF rendered'.raised = "none"
       THEN /\ console' = ""
            /\ pc' = "record"
       ELSE /\ console' = "Error occurred: OSError"
            /\ pc' = "input"
    /\ UNCHANGED <<keyVars, cfgVars, display_mode, messages, user_input, response, apiCalls,
                   graphVars>>

\* lines 211-214 without the extraction: str(response) is always kept
ResponseText_Raw(r) == Str(r)

\* lines 211-214: the text kept for the conversation context
ResponseText(r) ==
    LET extracted == Extract(r)
    IN  IF Truthy(extracted.text) THEN Str(extracted.text) ELSE Str(r)

\* lines 205-221.  extract catches what it raises itself, so the except
\* branch of line 217 is not taken
RecordResponse ==
    /\ pc = "record"
    /\ messages' = Append(messages, AssistantMessage(ResponseText(response)))
    /\ console' = "\n"
    /\ pc' = "input"
    /\ UNCHANGED <<keyVars, cfgVars, display_mode, user_input, response, apiCalls, rendered,
                   graphVars>>

-----------------------------------------------------------------------------
(* graph_functions.py                                                      *)

GRAPH_API_BASE == "https://graph.microsoft.com/v1.0"
TOKEN_URL == "https://login.microsoftonline.com/TENANT_ID/oauth2/v2.0/token"
DEFAULT_USER == StrV("h.sadiq@tsgfulfillment.com")

\* the names handle_function_call implements
ImplementedNames ==
    {"listEmails", "sendEmail", "createDraft", "sendDraft", "listDrafts",
     "listCalendarEvents", "createCalendarEvent", "updateMailboxSettings",
     "createForwardingRule"}

\* the names the model may ask for: ms_graph_functions.py has getMailboxSettings
FunctionNames == ImplementedNames \cup {"getMailboxSettings", "listemails"}

\* arguments[key] raises KeyError when the key is absent: the keys read that way
SubscriptedKeys(function_name) ==
    CASE function_name \in {"sendEmail", "createDraft"} -> {"to", "subject", "body"}
      [] function_name = "sendDraft" -> {"messageId"}
      [] function_name = "createCalendarEvent" -> {"subject", "startDateTime", "endDateTime"}
      [] function_name = "createForwardingRule" -> {"forwardTo"}
      [] OTHER -> {}

\* the keys read with arguments.get(key, default)
OptionalKeys ==
    {"userId", "top", "bodyType", "saveToSentItems", "attendees", "timeZone", "body",
     "autoReplyStatus", "autoReplyMessage", "senderContains"}

\* a value for each argument
ArgValue(key) ==
    CASE key = "userId" -> StrV("someone@example.com")
      [] key = "top" -> IntV(5)
      [] key \in {"to", "attendees", "forwardTo"} ->
            ListOf(<<StrV("a@example.com"), StrV("b@example.com")>>)
      [] key = "senderContains" -> ListOf(<<StrV("boss")>>)
      [] key = "saveToSentItems" -> BoolV(FALSE)
      [] key = "bodyType" -> StrV("HTML")
      [] key = "timeZone" -> StrV("UTC")
      [] key = "autoReplyStatus" -> StrV("alwaysEnabled")
      [] OTHER -> StrV("<" \o key \o ">")

ArgumentsWith(keys) == [k \in keys |-> ArgValue(k)]

\* the argument dictionaries the model passes for a function: the required
\* keys alone, with userId, with userId and top, with every key, and with
\* one required key missing
ArgumentSets(function_name) ==
    LET req == SubscriptedKeys(function_name)
    IN  { ArgumentsWith(req), ArgumentsWith(req \cup {"userId"}),
          ArgumentsWith(req \cup {"userId", "top"}),
          ArgumentsWith(req \cup OptionalKeys) }
        \cup { ArgumentsWith((req \ {k}) \cup {"userId"}) : k \in req }

\* arguments.get(key, default)
Get(arguments, key, default) ==
    IF key \in DOMAIN arguments THEN arguments[key] ELSE default

\* f"{value}"
F(value) == Join(Str(value))

\* [{"emailAddress": {"address": email}} for email in emails]
Recipients(emails) ==
    ListOf([i \in 1..Len(emails.items) |->
              DictV(<<Attr("emailAddress", DictV(<<Attr("address", emails.items[i])>>))>>)])

\* lines 98-101
Attendees(emails) ==
    ListOf([i \in 1..Len(emails.items) |->
              DictV(<<Attr("emailAddress", DictV(<<Attr("address", emails.items[i])>>)),
                      Attr("type", StrV("required"))>>)])

HttpRequest(method, url, payload) == [method |-> method, url |-> url, payload |-> payload]

\* handle_function_call, lines 41-144: the request of an implemented name
GraphRequest(function_name, arguments, user_id) ==
    LET users == GRAPH_API_BASE \o "/users/" \o F(user_id)
    IN  CASE function_name = "listEmails" ->
               HttpRequest("GET",
                   users \o "/messages?$top=" \o F(Get(arguments, "top", IntV(10))), NoneV)
          [] function_name = "sendEmail" ->
               HttpRequest("POST", users \o "/sendMail",
                   DictV(<<Attr("message", DictV(<<
                              Attr("subject", arguments["subject"]),
                              Attr("body", DictV(<<
                                  Attr("contentType", Get(arguments, "bodyType", StrV("Text"))),
                                  Attr("content", arguments["body"])>>)),
                              Attr("toRecipients", Recipients(arguments["to"]))>>)),
                           Attr("saveToSentItems",
                                Get(arguments, "saveToSentItems", BoolV(TRUE)))>>))
          [] function_name = "createDraft" ->
               HttpRequest("POST", users \o "/messages",
                   DictV(<<Attr("subject", arguments["subject"]),
                           Attr("body", DictV(<<
                               Attr("contentType", Get(arguments, "bodyType", StrV("Text"))),
                               Attr("content", arguments["body"])>>)),
                           Attr("toRecipients", Recipients(arguments["to"]))>>))
          [] function_name = "sendDraft" ->
               HttpRequest("POST",
                   users \o "/messages/" \o F(arguments["messageId"]) \o "/send", NoneV)
          [] function_name = "listDrafts" ->
               HttpRequest("GET", users \o "/mailFolders/drafts/messages", NoneV)
          [] function_name = "listCalendarEvents" ->
               HttpRequest("GET",
                   users \o "/events?$top=" \o F(Get(arguments, "top", IntV(10))), NoneV)
          [] function_name = "createCalendarEvent" ->
               HttpRequest("POST", users \o "/events",
                   DictV(<<Attr("subject", arguments["subject"]),
                           Attr("start", DictV(<<
                               Attr("dateTime", arguments["startDateTime"]),
                               Attr("timeZone",
                                    Get(arguments, "timeZone", StrV("Eastern Standard Time")))>>)),
                           Attr("end", DictV(<<
                               Attr("dateTime", arguments["endDateTime"]),
                               Attr("timeZone",
                                    Get(arguments, "timeZone", StrV("Eastern Standard Time")))>>)),
                           Attr("body", DictV(<<
                               Attr("contentType", StrV("Text")),
                               Attr("content", Get(arguments, "body", StrV("")))>>)),
                           Attr("attendees",
                                Attendees(Get(arguments, "attendees", ListOf(<< >>))))>>))
          [] function_name = "updateMailboxSettings" ->
               HttpRequest("PATCH", users \o "/mailboxSettings",
                   DictV(<<Attr("timeZone",
                                Get(arguments, "timeZone", StrV("Eastern Standard Time"))),
                           Attr("automaticRepliesSetting", DictV(<<
                               Attr("status", Get(arguments, "autoReplyStatus", StrV("disabled"))),
                               Attr("externalReplyMessage",
                                    Get(arguments, "autoReplyMessage", StrV("")))>>))>>))
          [] function_name = "createForwardingRule" ->
               HttpRequest("POST", users \o "/mailFolders/inbox/messageRules",
                   DictV(<<Attr("displayName", StrV("GPT Forwarding Rule")),
                           Attr("sequence", IntV(1)),
                           Attr("isEnabled", BoolV(TRUE)),
                           Attr("conditions", DictV(<<
                               Attr("senderContains",
                                    Get(arguments, "senderContains", ListOf(<< >>)))>>)),
                           Attr("actions", DictV(<<
                               Attr("forwardTo", Recipients(arguments["forwardTo"]))>>))>>))

\* line 39 without the lookup: always the default user
UserId_Default(arguments) == DEFAULT_USER

\* line 39
UserId(arguments) == Get(arguments, "userId", DEFAULT_USER)

\* the value handle_function_call returns from the response of Graph: the
\* sending functions report the status, the others return r.json()
Returned(value) == [kind |-> "returned", value |-> value]
Raised(exc) == [kind |-> "raised", exc |-> exc]

SentStatus == 202

GraphResult(function_name, http) ==
    IF function_name \in {"sendEmail", "sendDraft"}
    THEN Returned(DictV(<<Attr("status",
                               IF http.status = SentStatus THEN StrV("sent")
                               ELSE TextV(<<"r.text">>))>>))
    ELSE IF http.json THEN Returned(DictV(<<Attr("value", TextV(<<"r.json()">>))>>))
    ELSE Raised("JSONDecodeError")

\* what the token endpoint answers: a token, a body without access_token,
\* an error status (raise_for_status raises), no answer (requests raises)
TokenOutcomes ==
    { [status |-> 200, token |-> StrV("token-1")],
      [status |-> 200, token |-> StrV("token-2")],
      [status |-> 200, token |-> NoneV],
      [status |-> 401, token |-> NoneV],
      [status |-> 0, token |-> NoneV] }

\* what Graph answers: a status and whether the body is JSON; status 0 is
\* no answer (requests raises)
HttpOutcomes ==
    { [status |-> 200, json |-> TRUE], [status |-> 201, json |-> TRUE],
      [status |-> 202, json |-> FALSE], [status |-> 403, json |-> TRUE],
      [status |-> 500, json |-> FALSE], [status |-> 0, json |-> FALSE] }

\* run_openai_chat, lines 162-166: the model asks for a function
ModelSuggests(function_name, arguments) ==
    /\ pc = "chat"
    /\ call' = [function_name |-> function_name, arguments |-> arguments]
    /\ pc' = "token"
    /\ UNCHANGED <<keyVars, cfgVars, chatVars, rendered, network, result>>

\* run_openai_chat, lines 168-169: the model asks for none
ModelSuggestsNothing ==
    /\ pc = "chat"
    /\ result' = Returned(TextV(<<"No function call suggested by model.">>))
    /\ pc' = "finished"
    /\ UNCHANGED <<keyVars, cfgVars, chatVars, rendered, call, network>>

\* line 33 with a cache: the token of an earlier call is used again
GetGraphToken_Cached(answer) ==
    /\ pc = "token"
    /\ IF network # << >>
       THEN /\ call' = [function_name |-> call.function_name,
                        arguments |-> call.arguments, token |-> network[1].token]
            /\ UNCHANGED network
       ELSE /\ call' = [function_name |-> call.function_name,
                        arguments |-> call.arguments, token |-> answer.token]
            /\ network' = Append(network,
                  [request |-> HttpRequest("POST", TOKEN_URL, NoneV), bearer |-> NoneV,
                   status |-> answer.status, token |-> answer.token])
    /\ pc' = "dispatch"
    /\ UNCHANGED <<keyVars, cfgVars, chatVars, rendered, result>>

\* handle_function_call, line 33: get_graph_token
GetGraphToken(answer) ==
    /\ pc = "token"
    /\ network' = Append(network,
          [request |-> HttpRequest("POST", TOKEN_URL, NoneV), bearer |-> NoneV,
           status |-> answer.status, token |-> answer.token])
    /\ IF answer.status = 200
       THEN /\ call' = [function_name |-> call.function_name,
                        arguments |-> call.arguments, token |-> answer.token]
            /\ pc' = "dispatch"
            /\ UNCHANGED result
       ELSE /\ result' = Raised(IF answer.status = 0 THEN "ConnectionError" ELSE "HTTPError")
            /\ pc' = "finished"
            /\ UNCHANGED call
    /\ UNCHANGED <<keyVars, cfgVars, chatVars, rendered>>

\* lines 146-147 replaced by a default: a name that is not implemented is
\* served as listEmails
Dispatch_Default(http) ==
    /\ pc = "dispatch"
    /\ pc' = "finished"
    /\ LET name == IF call.function_name \in ImplementedNames
                   THEN call.function_name ELSE "listEmails"
       IN  IF ~(SubscriptedKeys(name) \subseteq DOMAIN call.arguments)
           THEN /\ result' = Raised("KeyError")
                /\ UNCHANGED network
           ELSE /\ network' = Append(network,
                      [request |-> GraphRequest(name, call.arguments, UserId(call.arguments)),
                       bearer |-> call.token,
                       status |-> http.status])
                /\ result' = IF http.status = 0 THEN Raised("ConnectionError")
                             ELSE GraphResult(name, http)
    /\ UNCHANGED <<keyVars, cfgVars, chatVars, rendered, call>>

\* handle_function_call, lines 39-147
Dispatch(http) ==
    /\ pc = "dispatch"
    /\ pc' = "finished"
    /\ IF call.function_name \notin ImplementedNames
       THEN /\ result' = Returned(DictV(<<Attr("error",
                    TextV(<<"Function '", call.function_name, "' is not implemented.">>))>>))
            /\ UNCHANGED network
       ELSE IF ~(SubscriptedKeys(call.function_name) \subseteq DOMAIN call.arguments)
       THEN /\ result' = Raised("KeyError")
            /\ UNCHANGED network
       ELSE /\ network' = Append(network,
                  [request |-> GraphRequest(call.function_name, call.arguments,
                                            UserId(call.arguments)),
                   bearer |-> call.token,
                   status |-> http.status])
            /\ result' = IF http.status = 0 THEN Raised("ConnectionError")
                         ELSE GraphResult(call.function_name, http)
    /\ UNCHANGED <<keyVars, cfgVars, chatVars, rendered, call>>

-----------------------------------------------------------------------------
(* ms_graph_functions.py                                                   *)

\* os.getenv("GRAPH_API_BASE"), line 15
MS_GRAPH_API_BASE == "$GRAPH_API_BASE"

MsOperations ==
    {"listEmails", "sendEmail", "createDraft", "listCalendarEvents",
     "getMailboxSettings", "createForwardingRule"}

\* the parameters of each operation that have no default
MsParameters(op) ==
    CASE op \in {"sendEmail", "createDraft"} -> {"to", "subject", "body"}
      [] op = "createForwardingRule" -> {"forwardTo"}
      [] OTHER -> {}

\* one recipient: [{"emailAddress": {"address": to}}]
MsRecipient(to) ==
    ListOf(<<DictV(<<Attr("emailAddress", DictV(<<Attr("address", to)>>))>>)>>)

\* the request each operation sends
MsRequestOf(op, arguments) ==
    CASE op = "listEmails" ->
           HttpRequest("GET", MS_GRAPH_API_BASE \o "/me/messages", NoneV)
      [] op = "sendEmail" ->
           HttpRequest("POST", MS_GRAPH_API_BASE \o "/me/sendMail",
               DictV(<<Attr("message", DictV(<<
                          Attr("subject", arguments["subject"]),
                          Attr("body", DictV(<<Attr("contentType", StrV("Text")),
                                               Attr("content", arguments["body"])>>)),
                          Attr("toRecipients", MsRecipient(arguments["to"]))>>)),
                       Attr("saveToSentItems", StrV("true"))>>))
      [] op = "createDraft" ->
           HttpRequest("POST", MS_GRAPH_API_BASE \o "/me/messages",
               DictV(<<Attr("subject", arguments["subject"]),
                       Attr("body", DictV(<<Attr("contentType", StrV("Text")),
                                            Attr("content", arguments["body"])>>)),
                       Attr("toRecipients", MsRecipient(arguments["to"]))>>))
      [] op = "listCalendarEvents" ->
           HttpRequest("GET", MS_GRAPH_API_BASE \o "/me/events", NoneV)
      [] op = "getMailboxSettings" ->
           HttpRequest("GET", MS_GRAPH_API_BASE \o "/me/mailboxSettings", NoneV)
      [] op = "createForwardingRule" ->
           HttpRequest("POST", MS_GRAPH_API_BASE \o "/me/mailFolders/inbox/messageRules",
               DictV(<<Attr("displayName", StrV("Auto Forward Rule")),
                       Attr("isEnabled", BoolV(TRUE)),
                       Attr("actions", DictV(<<
                           Attr("forwardTo", MsRecipient(arguments["forwardTo"]))>>))>>
                     \o (IF "conditions" \in DOMAIN arguments /\ Truthy(arguments["conditions"])
                         THEN <<Attr("conditions", arguments["conditions"])>>
                         ELSE << >>)))

\* every operation taking 200 for its success
MsSuccessStatus_Ok(op) == 200

\* the status each operation takes for a success
MsSuccessStatus(op) ==
    CASE op = "sendEmail" -> 202
      [] op \in {"createDraft", "createForwardingRule"} -> 201
      [] OTHER -> 200

\* the key of the success payload of each operation
MsSuccessKey(op) ==
    CASE op = "listEmails" -> "emails"
      [] op = "listCalendarEvents" -> "events"
      [] op = "getMailboxSettings" -> "settings"
      [] OTHER -> "success"

\* what an operation returns from the answer of Graph: the success payload
\* (response.json() is read for all but sendEmail), else the error
MsResult(op, http) ==
    IF http.status = MsSuccessStatus(op)
    THEN IF op # "sendEmail" /\ ~http.json
         THEN Raised("JSONDecodeError")
         ELSE Returned(DictV(<<Attr(MsSuccessKey(op), TextV(<<"payload">>))>>))
    ELSE Returned(DictV(<<Attr("error",
              TextV(<<"Failed: ", ToString(http.status), " - ", "response.text">>))>>))

\* a caller calls one of the operations
MsCall(op, arguments) ==
    /\ pc = "idle"
    /\ call' = [function_name |-> op, arguments |-> arguments]
    /\ pc' = "ms_token"
    /\ UNCHANGED <<keyVars, cfgVars, chatVars, rendered, network, result>>

\* get_graph_token, lines 21-36, and the test of the token that follows it
\* in every operation
MsGetGraphToken(answer) ==
    /\ pc = "ms_token"
    /\ network' = Append(network,
          [request |-> HttpRequest("POST", TOKEN_URL, NoneV), bearer |-> NoneV,
           status |-> answer.status, token |-> answer.token])
    /\ LET access_token == IF answer.status = 200 THEN answer.token ELSE NoneV
       IN  IF answer.status = 0
           THEN /\ result' = Raised("ConnectionError")
                /\ pc' = "finished"
                /\ UNCHANGED call
           ELSE IF ~Truthy(access_token)
           THEN /\ result' = Returned(DictV(<<Attr("error",
                                 TextV(<<"Failed to get access token">>))>>))
                /\ pc' = "finished"
                /\ UNCHANGED call
           ELSE /\ call' = [function_name |-> call.function_name,
                            arguments |-> call.arguments, token |-> access_token]
                /\ pc' = "ms_request"
                /\ UNCHANGED result
    /\ UNCHANGED <<keyVars, cfgVars, chatVars, rendered>>

\* the request of the operation and what it returns
MsRequest(http) ==
    /\ pc = "ms_request"
    /\ network' = Append(network,
          [request |-> MsRequestOf(call.function_name, call.arguments),
           bearer |-> call.token,
           status |-> http.status])
    /\ result' = IF http.status = 0 THEN Raised("ConnectionError")
                 ELSE MsResult(call.function_name, http)
    /\ pc' = "finished"
    /\ UNCHANGED <<keyVars, cfgVars, chatVars, rendered, call>>

\* a caller calls handle_function_call(function_name, arguments)
HandleFunctionCall(function_name, arguments) ==
    /\ pc = "idle"
    /\ call' = [function_name |-> function_name, arguments |-> arguments]
    /\ pc' = "token"
    /\ UNCHANGED <<keyVars, cfgVars, chatVars, rendered, network, result>>

MaxCalls == 2

\* the calls made so far: each starts with its token request
NumCalls == Cardinality({i \in 1..Len(network) : network[i].request.url = TOKEN_URL})

\* the call is over, the caller goes on
CallOver ==
    /\ pc = "finished"
    /\ NumCalls < MaxCalls
    /\ pc' = "idle"
    /\ UNCHANGED <<keyVars, cfgVars, chatVars, rendered, graphVars>>

-----------------------------------------------------------------------------
(* Module initialisation of config.py and the start of main()              *)

\* config_manager = ConfigManager(): runs _load_config once, at import
LoadConfig ==
    /\ pc = "import"
    /\ LET config_data == LoadConfigData(file, env)
       IN  IF PostInitRaises(config_data)
           THEN /\ pc' = "crashed"
                /\ UNCHANGED config
           ELSE /\ pc' = "main"
                /\ config' = PostInit(config_data)
    /\ UNCHANGED <<keyVars, file, env, args, chatVars, rendered, graphVars>>

\* ConfigManager.update_display_mode followed by save_config; the write of
\* the file succeeds or fails with IOError (a warning is printed)
UpdateDisplayMode(mode, writeOk) ==
    /\ pc = "input"
    /\ config' = UpdatedConfig(config, mode)
    /\ file' = IF UpdateSaves(mode) /\ writeOk THEN SavedFile(config') ELSE file
    /\ UNCHANGED <<keyVars, pc, env, args, chatVars, rendered, graphVars>>

\* main(), lines 152-173: parse_arguments, apply_cli_overrides, the setup
Startup(a, writeOk) ==
    /\ pc = "main"
    /\ LET updated == IF Truthy(a.mode) THEN UpdatedConfig(config, a.mode) ELSE config
       IN  /\ file' = IF Truthy(a.mode) /\ UpdateSaves(a.mode) /\ writeOk
                      THEN SavedFile(updated)
                      ELSE file
           /\ config' = FlagOverrides(updated, a)
    /\ args' = a
    /\ display_mode' = Or(a.mode, config'.display.default_mode)
    /\ messages' = <<DEVELOPER_MESSAGE>>
    /\ console' = "welcome"
    /\ pc' = "input"
    /\ UNCHANGED <<keyVars, env, user_input, response, apiCalls, rendered, graphVars>>

InitRest ==
    /\ config = NoConfig
    /\ args = NoArgs
    /\ display_mode = NoneV
    /\ messages = << >>
    /\ user_input = << >>
    /\ response = NoneV
    /\ apiCalls = << >>
    /\ console = ""
    /\ rendered = NoRender
    /\ call = NoCall
    /\ network = << >>
    /\ result = NoneV
    /\ formatter = NoFormatter
    /\ pressed = << >>

\* the configuration subsystem: any settings file, any environment, any
\* command line, then any sequence of update_display_mode calls
InitConfig ==
    /\ pc = "import"
    /\ \E src \in Sources :
          /\ file \in FilesOf(src.fileEntries)
          /\ env = EnvOf(src.envEntries)
    /\ InitRest

NextConfig ==
    \/ LoadConfig
    \/ \E a \in CommandLines, writeOk \in BOOLEAN : Startup(a, writeOk)
    \/ \E m \in ModeArguments, writeOk \in BOOLEAN : UpdateDisplayMode(m, writeOk)

SpecConfig == InitConfig /\ [][NextConfig]_vars

\* the command lines of the chat sessions of the model: every mode, with
\* no flag or with all three
ChatCommandLines ==
    {a \in CommandLines :
        a.no_interactive = a.no_colors /\ a.no_cost_tracking = a.no_colors}

\* the settings files of the chat sessions of the model
ChatFiles == {NoFile, JsonFile([display |-> [default_mode |-> StrV("debug")]])}

\* the chat client: python chat_cli.py
Init ==
    /\ pc = "import"
    /\ file \in ChatFiles
    /\ env = << >>
    /\ InitRest

Next ==
    \/ LoadConfig
    \/ \E a \in ChatCommandLines, writeOk \in BOOLEAN : Startup(a, writeOk)
    \/ \E inp \in UserInputs : ReadInput(inp)
    \/ ReadInputRaises
    \/ \E r \in ApiResponses : CallApiReturns(r)
    \/ CallApiRaises
    \/ KeyboardInterrupt
    \/ \E fault \in {"none", "console"} : FormatAndDisplay(fault)
    \/ RecordResponse

Spec == Init /\ [][Next]_vars

\* python graph_functions.py: run_openai_chat
InitGraph ==
    /\ pc = "chat"
    /\ file = NoFile
    /\ env = << >>
    /\ InitRest

NextGraph ==
    \/ \E name \in FunctionNames : \E arguments \in ArgumentSets(name) :
          ModelSuggests(name, arguments)
    \/ ModelSuggestsNothing
    \/ \E answer \in TokenOutcomes : GetGraphToken(answer)
    \/ \E http \in HttpOutcomes : Dispatch(http)

SpecGraph == InitGraph /\ [][NextGraph]_vars

-----------------------------------------------------------------------------
(* The formatter on its own: any response object, any mode argument, any   *)
(* mode of the formatter, any configured default mode.                     *)

\* the mode arguments of the model: the three modes, other strings, the
\* empty string and None
FormatModes == valid_modes \cup {StrV("fancy"), StrV("CLEAN"), StrV(""), NoneV}

\* the modes a ResponseFormatter is constructed with
FormatterModes == {NoneV, StrV("clean"), StrV("verbose"), StrV("debug")}

\* the configurations of the model: the defaults with each default mode, and
\* the defaults with "max_content_length": "1000" in the settings file
FormatConfigs ==
    { PostInit([DefaultConfigData EXCEPT !.display.default_mode = m]) : m \in valid_modes }
    \cup { PostInit([DefaultConfigData EXCEPT
                        !.display.max_content_length = StrV("1000")]) }

\* what a call displayed, with the modes it was made with
Displayed(shown, formatter_mode, mode) ==
    [branch |-> shown.branch, out |-> shown.out, raised |-> shown.raised,
     formatter_mode |-> formatter_mode, mode |-> mode]

\* ResponseFormatter(formatter_mode).format_response(response, display_mode)
FormatWithFormatter(formatter_mode) ==
    /\ pc = "formatter"
    /\ rendered' = Displayed(
          FormatterFormatResponse(response, formatter_mode, display_mode, config, "none"),
          formatter_mode, display_mode)
    /\ pc' = "formatted"
    /\ UNCHANGED <<keyVars, cfgVars, chatVars, graphVars>>

\* format_response(response, display_mode), line 491
FormatWithFunction ==
    /\ pc = "formatter"
    /\ rendered' = Displayed(format_response(response, display_mode, config, "none"),
                             display_mode, NoneV)
    /\ pc' = "formatted"
    /\ UNCHANGED <<keyVars, cfgVars, chatVars, graphVars>>

\* ContentExtractor().extract(response), as chat_cli.py calls it at line 208
ExtractorExtract ==
    /\ pc = "formatter"
    /\ result' = Returned(Extract(response))
    /\ pc' = "extracted"
    /\ UNCHANGED <<keyVars, cfgVars, chatVars, rendered, call, network>>

InitFormat ==
    /\ pc = "formatter"
    /\ config \in FormatConfigs
    /\ file = NoFile
    /\ env = << >>
    /\ args = NoArgs
    /\ display_mode \in FormatModes
    /\ response \in Responses
    /\ messages = << >>
    /\ user_input = << >>
    /\ apiCalls = << >>
    /\ console = ""
    /\ rendered = NoRender
    /\ call = NoCall
    /\ network = << >>
    /\ result = NoneV
    /\ formatter = NoFormatter
    /\ pressed = << >>

NextFormat ==
    \/ \E formatter_mode \in FormatterModes : FormatWithFormatter(formatter_mode)
    \/ FormatWithFunction
    \/ ExtractorExtract

SpecFormat == InitFormat /\ [][NextFormat]_vars

-----------------------------------------------------------------------------
(* A formatter kept between responses, as create_formatter returns it,     *)
(* its interactive display and the keyboard.                               *)

MaxKeys == 2

\* event.name of the keys of the model: the six shortcuts and another key
Keys == {"c", "v", "d", "r", "space", "escape", "x"}

\* the configurations of the model: the defaults, shortcuts enabled or not
KeyConfigs ==
    { PostInit([DefaultConfigData EXCEPT !.display.enable_interactive = BoolV(b)]) :
        b \in BOOLEAN }

\* the responses of the model: with a text and a reasoning, with a text
\* only, with neither
KeyResponses ==
    { TextReply,
      TextV(<<"plain", " ", "string", " ", "reply", " ", "of", " ", "nine">>),
      Obj("Opaque", << >>) }

\* create_formatter(mode): ResponseFormatter.__init__
NewFormatter(cfg, mode) ==
    [mode |-> Or(mode, cfg.display.default_mode),
     interactive_display |-> NewInteractiveDisplay(cfg, mode),
     hooked |-> FALSE,
     stop_keyboard_listener |-> FALSE]

\* what a call displayed, with the keys pressed before it
ShownAfter(shown, before) ==
    [branch |-> shown.branch, out |-> shown.out, raised |-> shown.raised,
     pressed |-> before]

\* formatter.interactive_display.setup_keyboard_listener(); outcome is what
\* importing and hooking the keyboard module does
SetupKeyboardListener(outcome) ==
    /\ pc = "keys"
    /\ ~formatter.hooked
    /\ formatter' =
          IF ~formatter.interactive_display.keyboard_enabled THEN formatter
          ELSE IF outcome = "hooked" THEN [formatter EXCEPT !.hooked = TRUE]
          ELSE [formatter EXCEPT !.interactive_display.keyboard_enabled = FALSE]
    /\ UNCHANGED <<pc, cfgVars, chatVars, rendered, graphVars, pressed>>

\* the user presses a key: on_key_event when the listener is hooked
KeyPress(key) ==
    /\ pc = "keys"
    /\ Len(pressed) < MaxKeys
    /\ pressed' = Append(pressed, key)
    /\ formatter' =
          IF formatter.hooked
          THEN [formatter EXCEPT
                  !.interactive_display = HandleKeyPress(@, config.keyboard, key),
                  !.stop_keyboard_listener =
                      @ \/ StopsListener(formatter.interactive_display,
                                         config.keyboard, key)]
          ELSE formatter
    /\ UNCHANGED <<pc, cfgVars, chatVars, rendered, graphVars>>

\* formatter.format_response(r)
FormatKept(r) ==
    /\ pc = "keys"
    /\ LET shown == FormatResponseWith(r, formatter.mode, formatter.interactive_display,
                                       NoneV, config, "none")
       IN  /\ rendered' = ShownAfter(shown, pressed)
           /\ formatter' = [formatter EXCEPT !.interactive_display = shown.disp]
    /\ response' = r
    /\ UNCHANGED <<pc, cfgVars, display_mode, messages, user_input, apiCalls, console,
                   graphVars, pressed>>

InitKeys ==
    /\ pc = "keys"
    /\ config \in KeyConfigs
    /\ file = NoFile
    /\ env = << >>
    /\ args = NoArgs
    /\ display_mode = NoneV
    /\ response = NoneV
    /\ messages = << >>
    /\ user_input = << >>
    /\ apiCalls = << >>
    /\ console = ""
    /\ rendered = NoRender
    /\ call = NoCall
    /\ network = << >>
    /\ result = NoneV
    /\ formatter \in {NewFormatter(config, m) : m \in FormatterModes}
    /\ pressed = << >>

NextKeys ==
    \/ \E outcome \in {"hooked", "ImportError", "Exception"} :
          SetupKeyboardListener(outcome)
    \/ \E key \in Keys : KeyPress(key)
    \/ \E r \in KeyResponses : FormatKept(r)

SpecKeys == InitKeys /\ [][NextKeys]_vars

-----------------------------------------------------------------------------
(* Properties of the chat loop, checked under Spec.                        *)

\* the inputs of the model that ask to quit, the blank ones and the others,
\* written out
QuitTyped == { <<"q","u","i","t">>, <<"\t","E","x","I","T"," ","\n">> }
BlankTyped == { << >>, <<" ","\t">> }
OrdinaryTyped == { <<"h","i">>, <<" ","Q","u","i","t"," ","n","o","w">> }

InterruptedText == "Session interrupted. Goodbye!"

IsPrefix(a, b) == Len(a) <= Len(b) /\ a = SubSeq(b, 1, Len(a))

\* C1: every user input that is not blank and not quit/exit causes exactly
\* one call of the Responses API, whose input is the history ending with
\* that user turn; no turn is called for twice, also when the call fails.
\* The calls made and the user turns of the history are in one-to-one
\* correspondence (one call is still to be made while the loop is about to
\* call), each call received the history up to its user turn, and the last
\* ordinary input is the last element of the last call.
C1_OneCallPerTurn ==
    LET turns == {i \in 1..Len(messages) : messages[i].role = "user"}
        pending == IF pc = "call" THEN 1 ELSE 0
    IN  /\ Len(apiCalls) + pending = Cardinality(turns)
        /\ \A k \in 1..Len(apiCalls) :
              LET input == apiCalls[k].input
              IN  /\ input # << >>
                  /\ input[Len(input)].role = "user"
                  /\ IsPrefix(input, messages)
                  /\ \A j \in 1..(k - 1) : Len(apiCalls[j].input) < Len(input)
        /\ \A i \in turns : messages[i].content \in OrdinaryTyped
        /\ pc = "call" =>
              /\ user_input \in OrdinaryTyped
              /\ messages[Len(messages)] = UserMessage(user_input)
        /\ pc \in {"format", "record"} => apiCalls[Len(apiCalls)].input = messages
        /\ (user_input \in OrdinaryTyped /\ pc # "call") =>
              /\ apiCalls # << >>
              /\ LET input == apiCalls[Len(apiCalls)].input
                 IN  input[Len(input)] = UserMessage(user_input)

\* a failed call, then a turn whose call returned
C1_Witness ==
    /\ pc = "input"
    /\ Len(apiCalls) = 2
    /\ apiCalls[1].outcome = "raised"
    /\ apiCalls[2].outcome = "returned"

\* the content of the assistant message of a response: the extracted text,
\* or str(response) when none was extracted
KeptText(r) == IF Truthy(Extract(r).text) THEN Str(Extract(r).text) ELSE Str(r)

\* C2: every turn whose API call succeeds and whose rendering returns
\* normally extends the history by exactly two messages, the user message
\* and one assistant message holding the extracted text (or str(response));
\* every call received all earlier messages in their order.  When the
\* rendering raises, the turn has added the user message only.
C2_TurnExtendsHistory ==
    /\ \A k \in 1..Len(apiCalls) : IsPrefix(apiCalls[k].input, messages)
    /\ pc \in {"format", "record"} =>
          /\ apiCalls[Len(apiCalls)].outcome = "returned"
          /\ apiCalls[Len(apiCalls)].input = messages
    /\ pc = "record" => rendered.raised = "none"
    /\ (pc = "input" /\ console = "\n") =>
          LET last == apiCalls[Len(apiCalls)]
          IN  /\ last.outcome = "returned"
              /\ rendered.raised = "none"
              /\ last.input[Len(last.input)] = UserMessage(user_input)
              /\ messages = last.input \o <<AssistantMessage(KeptText(response))>>
    /\ (pc = "input" /\ console = "Error occurred: OSError") =>
          LET last == apiCalls[Len(apiCalls)]
          IN  /\ last.outcome = "returned"
              /\ rendered.raised = "Exception"
              /\ messages = last.input

\* two complete turns
C2_Witness ==
    /\ pc = "input"
    /\ console = "\n"
    /\ Len(messages) = 5
    /\ messages[3].role = "assistant"
    /\ messages[5].role = "assistant"

\* C2 as stated: when the loop is back at the prompt, or over, after a call
\* that succeeded, the history is the input of that call followed by one
\* assistant message
C2_SuccessfulCallAddsTwo ==
    (pc \in {"input", "done"} /\ apiCalls # << >>
        /\ apiCalls[Len(apiCalls)].outcome = "returned") =>
       messages = apiCalls[Len(apiCalls)].input
                    \o <<AssistantMessage(KeptText(response))>>

\* the texts the last rendering put on the console
RenderedTexts == {rendered.out[i].text : i \in 1..Len(rendered.out)}

\* C3: for a response of the Responses API, neither the assistant message
\* appended to the history nor the rendered text contains the string form
\* of the text-format configuration object
C3_NoConfigurationLeak ==
    /\ \A i \in 1..Len(messages) :
          messages[i].role = "assistant" =>
             ~Contains(messages[i].content, "ResponseTextConfig")
    /\ \A text \in RenderedTexts : ~Contains(text, "ResponseTextConfig")

\* C10: when the reply of the model to a turn of the chat loop asks for a
\* call of listEmails, the function is dispatched to Microsoft Graph: once
\* the session is over, a reply that asked for the tool call and was
\* recorded has been followed by the Graph request of listEmails
C10_ToolCallDispatched ==
    (pc = "done" /\ console = "Goodbye!" /\ ToolCallsOf(response) # {}
        /\ messages[Len(messages)].role = "assistant") =>
       \E i \in 1..Len(network) :
          \E arguments \in ArgumentSets("listEmails") :
             network[i].request = GraphRequest("listEmails", arguments, UserId(arguments))

\* C4: an input of quit or exit, in any case and with surrounding
\* whitespace, ends the loop without a call and without a change of the
\* history; a keyboard interrupt ends it; nothing else does
C4_SessionEnds ==
    [][ /\ (pc = "input" /\ user_input' \in QuitTyped) =>
              /\ pc' = "done"
              /\ console' = "Goodbye!"
              /\ messages' = messages
              /\ apiCalls' = apiCalls
        /\ (pc # "done" /\ pc' = "done") =>
              \/ pc = "input" /\ user_input' \in QuitTyped /\ console' = "Goodbye!"
              \/ console' = InterruptedText
        /\ console' = InterruptedText => pc' = "done"
        /\ pc = "done" => pc' = "done"
      ]_vars

\* exit, typed in mixed case between whitespace, after a complete turn
C4_Witness ==
    /\ pc = "done"
    /\ console = "Goodbye!"
    /\ user_input = <<"\t","E","x","I","T"," ","\n">>
    /\ Len(messages) = 3
    /\ Len(apiCalls) = 1

\* C5: an exception raised by the API call or by the formatting is only
\* printed: the loop goes back to the prompt, and nothing but the console
\* changes (the failed call was made, it is not made again)
C5_ExceptionOnlyPrinted ==
    [][ /\ pc = "call" =>
              /\ pc' \in {"format", "input", "done"}
              /\ pc' = "input" =>
                    /\ console' = "Error occurred: APIError"
                    /\ apiCalls' = Append(apiCalls,
                                          [input |-> messages, outcome |-> "raised"])
                    /\ UNCHANGED <<messages, response, rendered>>
        /\ pc = "format" =>
              /\ pc' \in {"record", "input", "done"}
              /\ pc' = "input" =>
                    /\ console' = "Error occurred: OSError"
                    /\ UNCHANGED <<messages, response, apiCalls>>
        /\ console' \in {"Error occurred: APIError", "Error occurred: OSError",
                         "Error occurred: EOFError"} =>
              /\ pc' = "input"
              /\ UNCHANGED <<messages, user_input, display_mode, cfgVars, graphVars>>
      ]_vars

\* the input read after a failed call: the loop went on
C5_Witness ==
    /\ pc = "call"
    /\ Len(apiCalls) = 1
    /\ apiCalls[1].outcome = "raised"
    /\ Len(messages) = 3

-----------------------------------------------------------------------------
(* Properties of the configuration, checked under SpecConfig.              *)

ThreeModes == {StrV("clean"), StrV("verbose"), StrV("debug")}

VariableOf ==
    [default_mode          |-> "RF_DEFAULT_MODE",
     enable_colors         |-> "RF_ENABLE_COLORS",
     enable_interactive    |-> "RF_ENABLE_INTERACTIVE",
     enable_cost_tracking  |-> "RF_ENABLE_COST_TRACKING",
     show_timestamps       |-> "RF_SHOW_TIMESTAMPS",
     show_model_info       |-> "RF_SHOW_MODEL_INFO",
     max_content_length    |-> "RF_MAX_CONTENT_LENGTH",
     truncate_long_content |-> "RF_TRUNCATE_LONG_CONTENT"]

\* the values of the environment variables of the model that do not convert
Unconvertible == { <<"a","b","c">> }

\* what each value of an environment variable of the model means
MeaningOf(raw) ==
    CASE raw = <<"d","e","b","u","g">> -> StrV("debug")
      [] raw = <<"D","e","b","u","g">> -> StrV("Debug")
      [] raw = << >>                   -> StrV("")
      [] raw = <<"f","a","l","s","e">> -> BoolV(FALSE)
      [] raw = <<"Y","e","s">>         -> BoolV(TRUE)
      [] raw = <<"5","0">>             -> IntV(50)
      [] raw = <<" ","7","\n">>        -> IntV(7)
      [] raw = <<"n","o">>             -> BoolV(FALSE)
      [] raw = <<"0">>                 -> BoolV(FALSE)
      [] raw = <<"1">>                 -> BoolV(TRUE)
      [] raw = <<"O","N">>             -> BoolV(TRUE)
      [] raw = <<"t","r","u","e","!">> -> BoolV(FALSE)

InFile(sec, key) ==
    /\ file.kind = "json"
    /\ sec \in DOMAIN file.data
    /\ key \in DOMAIN file.data[sec]

\* the settings file's value of a setting, else the built-in default
FileOrDefault(sec, key) ==
    IF InFile(sec, key) THEN file.data[sec][key] ELSE DefaultConfigData[sec][key]

\* a mode that is not valid is replaced by clean
Validated(key, value) ==
    IF key = "default_mode" /\ value \notin ThreeModes THEN StrV("clean") ELSE value

-----------------------------------------------------------------------------
(* Properties of the formatter, checked under SpecFormat.                  *)

\* the first of the values that is truthy, as a or b or c
FirstTruthy(a, b, c) == IF Truthy(a) THEN a ELSE IF Truthy(b) THEN b ELSE c

\* the mode in effect in a call: the mode argument, else the mode of the
\* formatter, else the configured default mode
EffectiveMode == FirstTruthy(rendered.mode, rendered.formatter_mode,
                             config.display.default_mode)

PanelTitles == {rendered.out[i].title : i \in {j \in 1..Len(rendered.out) :
                                                 rendered.out[j].el = "panel"}}

\* what tells the branches apart on the console: the clean branch starts
\* with the header or the warning, the other two with the mode indicator,
\* and only the debug branch has a Model Info panel
LooksLike(branch) ==
    CASE branch = "clean"   -> rendered.out[1].el \in {"header", "warning"}
      [] branch = "verbose" -> /\ rendered.out[1].el = "mode_indicator"
                               /\ "Model Info" \notin PanelTitles
      [] branch = "debug"   -> /\ rendered.out[1].el = "mode_indicator"
                               /\ "Model Info" \in PanelTitles

\* C6: when extraction succeeds exactly one branch runs, chosen by the mode
\* in effect: clean, verbose, debug, and the clean branch for any other
\* value; when extraction reports an error no branch runs and the error
\* panel is shown, followed by the raw response panel when the configured
\* default mode is debug
C6_BranchByMode ==
    pc = "formatted" =>
       IF Truthy(Extract(response).error)
       THEN /\ rendered.branch = "none"
            /\ rendered.out[1] = Event("panel", "Error", "red", << >>)
            /\ rendered.out[2].el = "error"
            /\ PanelTitles = {"Error"} \cup
                  (IF config.display.default_mode = StrV("debug")
                   THEN {"Raw Response (Debug)"} ELSE {})
            /\ Len(rendered.out) =
                  IF config.display.default_mode = StrV("debug") THEN 4 ELSE 2
       ELSE /\ rendered.branch =
                  (CASE EffectiveMode = StrV("clean")   -> "clean"
                     [] EffectiveMode = StrV("verbose") -> "verbose"
                     [] EffectiveMode = StrV("debug")   -> "debug"
                     [] OTHER -> "clean")
            /\ LooksLike(rendered.branch)

\* a mode that is none of the three, given to a formatter made for debug
C6_Witness ==
    /\ pc = "formatted"
    /\ rendered.mode = StrV("fancy")
    /\ rendered.formatter_mode = StrV("debug")
    /\ rendered.branch = "clean"
    /\ response = TextReply

\* C6 as stated: when extraction reports an error only the error panel is
\* shown
C6_OnlyErrorPanel ==
    (pc = "formatted" /\ Truthy(Extract(response).error)) =>
       /\ rendered.branch = "none"
       /\ PanelTitles = {"Error"}

-----------------------------------------------------------------------------
(* Properties of handle_function_call, checked under SpecGraph.            *)

\* the arguments each function cannot do without
RequiredArguments ==
    [listEmails            |-> {},
     sendEmail             |-> {"to", "subject", "body"},
     createDraft           |-> {"to", "subject", "body"},
     sendDraft             |-> {"messageId"},
     listDrafts            |-> {},
     listCalendarEvents    |-> {},
     createCalendarEvent   |-> {"subject", "startDateTime", "endDateTime"},
     updateMailboxSettings |-> {},
     createForwardingRule  |-> {"forwardTo"}]

\* the method and the path under /users/{user} of each function, for the
\* argument values of the model
EndpointOf(arguments) ==
    LET top == IF "top" \in DOMAIN arguments THEN "5" ELSE "10"
    IN  [listEmails            |-> <<"GET", "/messages?$top=" \o top>>,
         sendEmail             |-> <<"POST", "/sendMail">>,
         createDraft           |-> <<"POST", "/messages">>,
         sendDraft             |-> <<"POST", "/messages/<messageId>/send">>,
         listDrafts            |-> <<"GET", "/mailFolders/drafts/messages">>,
         listCalendarEvents    |-> <<"GET", "/events?$top=" \o top>>,
         createCalendarEvent   |-> <<"POST", "/events">>,
         updateMailboxSettings |-> <<"PATCH", "/mailboxSettings">>,
         createForwardingRule  |-> <<"POST", "/mailFolders/inbox/messageRules">>]

UserOf(arguments) ==
    IF "userId" \in DOMAIN arguments THEN "someone@example.com"
    ELSE "h.sadiq@tsgfulfillment.com"

\* the requests sent to Microsoft Graph: all but the token request
GraphRequests ==
    {i \in 1..Len(network) : network[i].request.url # TOKEN_URL}

\* a call of one of the nine functions with its required arguments is over
NamedCallOver ==
    /\ pc = "finished"
    /\ call.function_name \in DOMAIN RequiredArguments
    /\ RequiredArguments[call.function_name] \subseteq DOMAIN call.arguments

\* C9: for each of the nine names with its required arguments, when the
\* token request succeeds exactly one Graph request is sent, with the
\* method and to the endpoint of the name, for the user of userId or the
\* default user; when the token request fails none is sent
C9_DispatchByName ==
    NamedCallOver =>
       /\ network # << >>
       /\ network[1].request.url = TOKEN_URL
       /\ IF network[1].status = 200
          THEN /\ Len(network) = 2
               /\ GraphRequests = {2}
               /\ network[2].request.method = EndpointOf(call.arguments)[call.function_name][1]
               /\ network[2].request.url =
                     "https://graph.microsoft.com/v1.0/users/" \o UserOf(call.arguments)
                        \o EndpointOf(call.arguments)[call.function_name][2]
          ELSE GraphRequests = {}

\* a forwarding rule created for the default user
C9_Witness ==
    /\ NamedCallOver
    /\ call.function_name = "createForwardingRule"
    /\ "userId" \notin DOMAIN call.arguments
    /\ Len(network) = 2
    /\ network[2].request.method = "POST"

\* C9 as stated: a call of one of the nine names with its required
\* arguments sends exactly one Graph request
C9_ExactlyOneRequest ==
    NamedCallOver => Cardinality(GraphRequests) = 1

-----------------------------------------------------------------------------
(* Callers of the mailbox functions: a sequence of calls of                *)
(* handle_function_call and of the operations of ms_graph_functions.       *)

\* the calls of handle_function_call of the model: two implemented names,
\* one complete and one incomplete argument set, and a name not implemented
HandledCalls ==
    { [function_name |-> "listEmails", arguments |-> ArgumentsWith({"userId"})],
      [function_name |-> "sendDraft", arguments |-> ArgumentsWith({"messageId"})],
      [function_name |-> "sendDraft", arguments |-> ArgumentsWith({"userId"})],
      [function_name |-> "getMailboxSettings", arguments |-> ArgumentsWith({})] }

\* the answers of Graph in a sequence of calls
CallHttpOutcomes ==
    { [status |-> 200, json |-> TRUE], [status |-> 202, json |-> FALSE],
      [status |-> 403, json |-> TRUE] }

InitCalls ==
    /\ pc = "idle"
    /\ file = NoFile
    /\ env = << >>
    /\ InitRest

NextCalls ==
    \/ \E c \in HandledCalls : HandleFunctionCall(c.function_name, c.arguments)
    \/ \E op \in MsOperations : MsCall(op, ArgumentsWith(MsParameters(op)))
    \/ \E answer \in TokenOutcomes : GetGraphToken(answer)
    \/ \E answer \in TokenOutcomes : MsGetGraphToken(answer)
    \/ \E http \in CallHttpOutcomes : Dispatch(http)
    \/ \E http \in CallHttpOutcomes : MsRequest(http)
    \/ CallOver

SpecCalls == InitCalls /\ [][NextCalls]_vars

\* one call of an operation of ms_graph_functions, with every answer of the
\* token endpoint and of Graph
MsHttpOutcomes == HttpOutcomes \cup {[status |-> 200, json |-> FALSE]}

NextMs ==
    \/ \E op \in MsOperations : MsCall(op, ArgumentsWith(MsParameters(op)))
    \/ \E answer \in TokenOutcomes : MsGetGraphToken(answer)
    \/ \E http \in MsHttpOutcomes : MsRequest(http)

SpecMs == InitCalls /\ [][NextMs]_vars

\* the names of the model that are not implemented
UnknownNames == {"getMailboxSettings", "listemails"}

\* C17: for a name that is not one of the nine, handle_function_call sends
\* no request to Graph and, when the token request it makes first succeeds,
\* returns {"error": "Function '<name>' is not implemented."}; when the
\* token request fails the exception leaves the call
C17_NotImplemented ==
    (pc = "finished" /\ call.function_name \in UnknownNames) =>
       /\ GraphRequests = {}
       /\ Len(network) = 1
       /\ IF network[1].status = 200
          THEN result = [kind |-> "returned",
                         value |-> DictV(<<Attr("error",
                             TextV(<<"Function '", call.function_name,
                                     "' is not implemented.">>))>>)]
          ELSE result.kind = "raised"

\* listemails, in lower case, is refused
C17_Witness ==
    /\ pc = "finished"
    /\ call.function_name = "listemails"
    /\ result.kind = "returned"
    /\ GraphRequests = {}

\* C17 as stated: a name that is not implemented gets the error value
C17_ErrorValueReturned ==
    (pc = "finished" /\ call.function_name \in UnknownNames) =>
       /\ GraphRequests = {}
       /\ result.kind = "returned"

-----------------------------------------------------------------------------
(* Properties of the callers of the mailbox functions, checked under       *)
(* SpecCalls.                                                              *)

IsTokenRequest(entry) ==
    entry.request.url = "https://login.microsoftonline.com/TENANT_ID/oauth2/v2.0/token"

\* C11: every call makes exactly one token request, which is answered
\* before the Graph request is sent; the Graph request carries the token of
\* that answer; no call uses the token of an earlier call.  Every Graph
\* request of the log directly follows a token request answered with 200
\* and carries its token; the step that gets the token adds one token
\* request, the step that sends the Graph request adds at most that one
\* request, nothing else touches the network.
C11_TokenPerCall ==
    /\ [](\A i \in 1..Len(network) :
            IsTokenRequest(network[i]) \/
               /\ i > 1
               /\ IsTokenRequest(network[i - 1])
               /\ network[i - 1].status = 200
               /\ network[i].bearer = network[i - 1].token)
    /\ [][ /\ pc \in {"token", "ms_token"} =>
                /\ Len(network') = Len(network) + 1
                /\ SubSeq(network', 1, Len(network)) = network
                /\ IsTokenRequest(network'[Len(network')])
                /\ pc' \in {"dispatch", "ms_request", "finished"}
           /\ pc \in {"dispatch", "ms_request"} =>
                /\ IsTokenRequest(network[Len(network)])
                /\ pc' = "finished"
                /\ \/ network' = network
                   \/ /\ Len(network') = Len(network) + 1
                      /\ SubSeq(network', 1, Len(network)) = network
                      /\ ~IsTokenRequest(network'[Len(network')])
           /\ pc \in {"idle", "finished"} => network' = network
         ]_vars

\* two calls, one of each module, each with the token it was given
C11_Witness ==
    /\ pc = "finished"
    /\ Len(network) = 4
    /\ network[2].bearer = StrV("token-1")
    /\ network[2].request.url =
          "https://graph.microsoft.com/v1.0/users/someone@example.com/messages?$top=10"
    /\ network[4].bearer = StrV("token-2")
    /\ network[4].request.url = "$GRAPH_API_BASE/me/messages"

-----------------------------------------------------------------------------
(* Properties of ms_graph_functions, checked under SpecMs.                 *)

\* the keys of a returned dictionary
KeysOf(d) == {d.fields[i].name : i \in 1..Len(d.fields)}

SuccessKeys == {"emails", "events", "settings", "success"}

\* the status that means success, for each operation
ExpectedStatus ==
    [listEmails |-> 200, sendEmail |-> 202, createDraft |-> 201,
     listCalendarEvents |-> 200, getMailboxSettings |-> 200,
     createForwardingRule |-> 201]

TokenError ==
    [kind |-> "returned",
     value |-> DictV(<<Attr("error", TextV(<<"Failed to get access token">>))>>)]

\* C18: when the token request is answered with a status other than 200,
\* the operation returns {"error": "Failed to get access token"} and sends
\* no Graph request; an operation that returns, returns a dictionary with
\* the key error or a success payload, never both, the success payload
\* exactly when Graph answered with the status of success; an operation
\* does not return when a request is not answered or a successful answer is
\* not JSON
C18_ErrorOrSuccess ==
    pc = "finished" =>
       /\ (network[1].status \notin {0, 200}) =>
             /\ result = TokenError
             /\ Len(network) = 1
       /\ (network[1].status = 200 /\ network[1].token = NoneV) =>
             /\ result = TokenError
             /\ Len(network) = 1
       /\ result.kind = "returned" =>
             /\ result.value.t = "dict"
             /\ ("error" \in KeysOf(result.value))
                   # (KeysOf(result.value) \cap SuccessKeys # {})
             /\ Len(network) = 2 =>
                   (("error" \notin KeysOf(result.value))
                      <=> network[2].status = ExpectedStatus[call.function_name])
       /\ result.kind = "raised" =>
             \/ network[Len(network)].status = 0
             \/ /\ Len(network) = 2
                /\ network[2].status = ExpectedStatus[call.function_name]
                /\ call.function_name # "sendEmail"

\* a draft created: Graph answered 201
C18_Witness ==
    /\ pc = "finished"
    /\ call.function_name = "createDraft"
    /\ Len(network) = 2
    /\ network[2].status = 201
    /\ result.kind = "returned"
    /\ "success" \in KeysOf(result.value)

\* C18 as stated: every operation returns a dictionary
C18_AlwaysReturnsDictionary ==
    pc = "finished" =>
       /\ result.kind = "returned"
       /\ result.value.t = "dict"

-----------------------------------------------------------------------------
(* Properties of the keyboard shortcuts, checked under SpecKeys.           *)

\* the mode a shortcut selects, "" for another key
ModeOfKey(key) ==
    CASE key = config.keyboard.clean_mode.s   -> "clean"
      [] key = config.keyboard.verbose_mode.s -> "verbose"
      [] key = config.keyboard.debug_mode.s   -> "debug"
      [] OTHER -> ""

RECURSIVE LastModeKey(_)
\* the mode selected by the most recent mode key of a sequence of keys
LastModeKey(ks) ==
    IF ks = << >> THEN ""
    ELSE IF ModeOfKey(ks[Len(ks)]) # "" THEN ModeOfKey(ks[Len(ks)])
    ELSE LastModeKey(SubSeq(ks, 1, Len(ks) - 1))

\* the formatter was listening to the keyboard with shortcuts enabled
Listening ==
    /\ Truthy(config.display.enable_interactive)
    /\ formatter.hooked

\* C12: with interactive shortcuts enabled and the listener installed, a
\* response rendered after 'c', 'v' or 'd' was pressed is rendered in the
\* mode selected by the most recent of these keys.
C12_KeySelectsMode ==
    (/\ pc = "keys"
     /\ Listening
     /\ rendered.branch # "none"
     /\ rendered.pressed = pressed
     /\ LastModeKey(pressed) # "")
    => rendered.branch = LastModeKey(pressed)

\* the section of that title is registered and expanded
Expanded(disp, title) ==
    \E i \in 1..Len(disp.expanded_sections) :
        /\ disp.expanded_sections[i].title = title
        /\ disp.expanded_sections[i].expanded

\* the latest response carried a reasoning and was rendered in verbose
\* mode, and since then exactly the keys ks were pressed
PressedAfterReasoning(ks) ==
    /\ pc = "keys"
    /\ formatter.hooked
    /\ rendered.branch = "verbose"
    /\ rendered.raised = "none"
    /\ Truthy(Extract(response).reasoning)
    /\ pressed = rendered.pressed \o ks

\* C13: after a response with a reasoning was rendered in verbose mode, one
\* press of the reasoning key leaves the reasoning section expanded.
C13_ReasoningKeyToggles ==
    PressedAfterReasoning(<<config.keyboard.reasoning.s>>)
    => Expanded(formatter.interactive_display, "Reasoning")

-----------------------------------------------------------------------------
(* Properties of --no-colors, checked under Spec.                          *)

\* the styles that name no color but white
NeutralStyles == {"", "white", "dim", "bold white", "dim italic"}

\* C14: in a session started with --no-colors every element that
\* format_response puts on the console has a neutral style.
C14_NoColorsNeutral ==
    args.no_colors
    => \A i \in 1..Len(rendered.out) : rendered.out[i].style \in NeutralStyles

-----------------------------------------------------------------------------
(* Properties of the extractor, checked under SpecFormat.                  *)

\* a step of the extraction fails: the response has no text attribute, its
\* first choice has a message, and the message is None
StepFails(r) ==
    /\ ~HasAttr(r, "text")
    /\ HasAttr(r, "choices")
    /\ Truthy(GetAttr(r, "choices"))
    /\ HasAttr(GetAttr(r, "choices").items[1], "message")
    /\ GetAttr(GetAttr(r, "choices").items[1], "message") = NoneV

\* C16: extract returns an ExtractedContent for every response, and when a
\* step of the extraction fails the content has its error set, its text,
\* reasoning, usage, model and metadata unset, and the response as
\* raw_response.
C16_ExtractNeverRaises ==
    pc = "extracted" =>
        /\ result.kind = "returned"
        /\ DOMAIN result.value = DOMAIN EmptyContent
        /\ StepFails(response) =>
              /\ Truthy(result.value.error)
              /\ result.value.text = NoneV
              /\ result.value.reasoning = NoneV
              /\ result.value.usage = NoneV
              /\ result.value.model = NoneV
              /\ result.value.metadata = NoneV
              /\ result.value.raw_response = response
        /\ ~StepFails(response) => result.value.error = NoneV

C16_Witness ==
    /\ pc = "extracted"
    /\ StepFails(response)
    /\ Truthy(result.value.error)
    /\ result.value.raw_response = response

-----------------------------------------------------------------------------
(* Properties of the three display modes, checked under SpecFormat.        *)

\* the section of the extracted response an element of the console shows,
\* "" for the elements that belong to no section of their own
SectionOf(e) ==
    CASE e.el \in {"header", "content"} -> "text"
      [] e.el = "panel" /\ e.title = "Assistant Response" -> "text"
      [] e.el = "panel" /\ e.title \in {"> Reasoning", "v Reasoning", "Reasoning"}
            -> "reasoning"
      [] e.el = "panel" /\ e.title = "Usage Statistics" -> "usage"
      [] e.el = "panel" /\ e.title = "Metadata" -> "metadata"
      [] e.el = "panel" /\ e.title = "Model Info" -> "model info"
      [] e.el = "panel" /\ e.title \in {"Raw Response", "Raw Response (Debug)"}
            -> "raw response"
      [] e.el = "usage" -> "cost"
      [] e.el = "hints" -> "hints"
      [] e.el = "warning" -> "warning"
      [] e.el = "error" -> "error"
      [] OTHER -> ""

SectionsOf(out) == {SectionOf(out[i]) : i \in 1..Len(out)} \ {""}

\* the sections the verbose mode renders for the response of the state
VerboseSections ==
    SectionsOf(FormatterFormatResponse(response, StrV("verbose"), NoneV, config, "none").out)

TechnicalSections == {"model info", "metadata", "raw response"}

\* the branch run by the call of the state raised an exception, which
\* format_response caught
RenderingFails ==
    /\ ~Truthy(Extract(response).error)
    /\ rendered.branch # "none"
    /\ RunBranch(rendered.branch, config,
                 NewInteractiveDisplay(config, rendered.formatter_mode),
                 Extract(response)).raises

\* C15: when the extraction succeeds and the rendering raises nothing, the
\* clean branch renders only the text and the hints, or the warning when
\* there is no text; the verbose branch renders the text, the reasoning and
\* the usage statistics whenever they were extracted, and no technical
\* section; the debug branch renders every section the verbose mode renders
\* for the same response, the model info, and the metadata and the raw
\* response whenever there is one.
C15_ModeControlsSections ==
    (pc = "formatted" /\ ~Truthy(Extract(response).error) /\ ~RenderingFails) =>
        LET content == Extract(response)
            shown == SectionsOf(rendered.out)
        IN  /\ rendered.branch = "clean" =>
                /\ shown \subseteq {"text", "hints", "warning"}
                /\ "text" \in shown <=> Truthy(content.text)
                /\ "warning" \in shown <=> ~Truthy(content.text)
            /\ rendered.branch = "verbose" =>
                /\ Truthy(content.text) => "text" \in shown
                /\ Truthy(content.reasoning) => "reasoning" \in shown
                /\ Truthy(content.usage) => "usage" \in shown
                /\ shown \cap TechnicalSections = {}
            /\ rendered.branch = "debug" =>
                /\ VerboseSections \subseteq shown
                /\ "model info" \in shown
                /\ Truthy(content.metadata) => "metadata" \in shown
                /\ Truthy(content.raw_response) => "raw response" \in shown

C15_Witness ==
    /\ pc = "formatted"
    /\ rendered.branch = "debug"
    /\ ~Truthy(Extract(response).error)
    /\ Truthy(Extract(response).reasoning)
    /\ Truthy(Extract(response).usage)
    /\ {"text", "reasoning", "usage", "metadata", "raw response"}
            \subseteq SectionsOf(rendered.out)

\* C15 as stated: in clean mode only the text and the hints are rendered; in
\* verbose mode the reasoning and the usage statistics are rendered whenever
\* the response carries them; in debug mode every section of the verbose
\* mode, the model info, the metadata and the raw response are rendered.
C15_ModeAloneControlsSections ==
    pc = "formatted" =>
        LET shown == SectionsOf(rendered.out)
        IN  /\ EffectiveMode = StrV("clean") => shown \subseteq {"text", "hints"}
            /\ EffectiveMode = StrV("verbose") =>
                /\ Truthy(ExtractReasoning(response)) => "reasoning" \in shown
                /\ Truthy(ExtractUsage(response)) => "usage" \in shown
            /\ EffectiveMode = StrV("debug") =>
                /\ VerboseSections \subseteq shown
                /\ "model info" \in shown
                /\ Truthy(ExtractMetadata(response)) => "metadata" \in shown
                /\ "raw response" \in shown

-----------------------------------------------------------------------------
(* Properties of the formatting errors, checked under SpecFormat.          *)

\* the console shows the extracted text and, after it, an error
TextThenError ==
    \E i, j \in 1..Len(rendered.out) :
        /\ i < j
        /\ rendered.out[i].el = "content"
        /\ rendered.out[i].text = Extract(response).text.toks
        /\ rendered.out[j].el = "error"

\* C19: when the rendering fails after the content was extracted, the
\* extracted text is shown if there is one, followed by the formatting
\* error; otherwise the formatting error panel is shown.
C19_TextShownOnFormattingError ==
    (pc = "formatted" /\ RenderingFails) =>
        IF Truthy(Extract(response).text)
        THEN TextThenError
        ELSE "Formatting Error" \in PanelTitles

-----------------------------------------------------------------------------
(* Properties of the settings file, checked under SpecConfig.              *)

====
